---------------------------- MODULE Spec2Model ----------------------------
(***************************************************************************)
(* Model of the stylometric analysis core of PaperMirror:                  *)
(*   utils/analysis/text.ts          normalizeText, splitSentencesCN,      *)
(*                                   getBodyText                           *)
(*   utils/analysis/metrics.ts       calculateMetrics                      *)
(*   utils/analysis/mirrorScore.ts   calculateMirrorScore, generate...     *)
(*   utils/analysis/citationHints.ts extractNumbers, extractAcronyms,      *)
(*                                   calculateFidelityGuardrails,          *)
(*                                   generateCitationSuggestions           *)
(*                                                                         *)
(* A text is a sequence of characters.  An ASCII character is the string   *)
(* holding it; a character outside ASCII is named by its code point        *)
(* ("u3002" is the ideographic full stop).  Offsets are 0-based as in      *)
(* JavaScript: offset i lies before the character s[i+1].                  *)
(*                                                                         *)
(* Numbers with decimals are kept exact as scaled integers or as           *)
(* fractions [n, d]; Math.round(x) is floor(x + 1/2).                      *)
(***************************************************************************)
EXTENDS Integers, Sequences, FiniteSets, TLC

VARIABLES
    pc,            \* position of the caller: which call has returned
    text,          \* argument of normalizeText / splitSentencesCN
    normalized,    \* normalizeText(text)
    renormalized,  \* normalizeText(normalized)
    sentences,     \* splitSentencesCN(text)
    sample,        \* DetailedMetrics of the sample document
    draft,         \* DetailedMetrics of the draft (the target of a score)
    standard,      \* DetailedMetrics of the rewritten text
    weights,       \* the weights parameter of generateMirrorScore
    score,         \* calculateMirrorScore(draft, sample)
    mirror,        \* generateMirrorScore(sample, draft, standard, weights)
    draftText,     \* first argument of calculateFidelityGuardrails
    standardText,  \* second argument of calculateFidelityGuardrails
    guardrails,    \* calculateFidelityGuardrails(draftText, standardText)
    suggestions,   \* generateCitationSuggestions(draftText)
    metrics,       \* calculateMetrics(text)
    heap,          \* the weights objects that live across calls, by reference
    stream,        \* the part of the response body not yet read
    received,      \* everything the decoder has decoded so far
    buffer,        \* the text after the last blank line
    finalResult,   \* the data of the last 'complete' event
    eventCount,    \* the data lines met
    parsed,        \* the events JSON.parse has returned, in order
    progressCalls, \* the calls of onProgress, in order
    reader,        \* the lock of the stream's reader
    done,          \* reader.read() has reported the end of the stream
    outcome,       \* the promise of processPaperWithCloudFunction
    chunks,        \* the chunks of the draft
    chunkIndex,    \* the loop variable i of runInferenceWorkflow
    outputs,       \* rewrittenConservative, rewrittenStandard, rewrittenEnhanced
    failedChunks,  \* the numbers of the chunks that failed
    trace,         \* the progress updates and service calls made, in order
    workflowResult,\* the promise of runInferenceWorkflow
    status,        \* useMigrationWorkflow: AppStatus
    result,        \* useMigrationWorkflow: MigrationResult or null
    error,         \* useMigrationWorkflow: error message or null
    progress,      \* useMigrationWorkflow: ProgressUpdate or null
    downloadLinks, \* useMigrationWorkflow: the object URLs
    migrations     \* the calls of startMigration that have not finished

textVars     == <<text, normalized, renormalized, sentences>>
mirrorVars   == <<sample, draft, standard, weights, score, mirror>>
fidelityVars == <<draftText, standardText, guardrails>>
citationVars == <<suggestions>>
metricsVars  == <<metrics>>

clientVars   == <<stream, received, buffer, finalResult, eventCount, parsed,
                  progressCalls, reader, done, outcome>>
workflowVars == <<chunks, chunkIndex, outputs, failedChunks, trace, workflowResult>>
hookVars     == <<status, result, error, progress, downloadLinks, migrations>>
serviceVars  == <<clientVars, workflowVars, hookVars>>

vars == <<pc, textVars, mirrorVars, fidelityVars, citationVars, metricsVars, heap,
          serviceVars>>

None == "none"

\* the variables of a component that a specification does not use
NoClient ==
    /\ stream = None /\ received = None /\ buffer = None /\ finalResult = None
    /\ eventCount = None /\ parsed = None /\ progressCalls = None
    /\ reader = None /\ done = None /\ outcome = None

NoWorkflow ==
    /\ chunks = None /\ chunkIndex = None /\ outputs = None
    /\ failedChunks = None /\ trace = None /\ workflowResult = None

NoHook ==
    /\ status = None /\ result = None /\ error = None /\ progress = None
    /\ downloadLinks = None /\ migrations = None

NoAnalysis ==
    /\ text = None /\ normalized = None /\ renormalized = None /\ sentences = None
    /\ sample = None /\ draft = None /\ standard = None
    /\ weights = None /\ score = None /\ mirror = None
    /\ draftText = None /\ standardText = None /\ guardrails = None
    /\ suggestions = None /\ metrics = None /\ heap = None

-----------------------------------------------------------------------------
(* Characters and character classes of the regular expressions.            *)

Digits == {"0", "1", "2", "3", "4", "5", "6", "7", "8", "9"}

Upper == {"A", "B", "C", "D", "E", "F", "G", "H", "I", "J", "K", "L", "M",
          "N", "O", "P", "Q", "R", "S", "T", "U", "V", "W", "X", "Y", "Z"}

Lower == {"a", "b", "c", "d", "e", "f", "g", "h", "i", "j", "k", "l", "m",
          "n", "o", "p", "q", "r", "s", "t", "u", "v", "w", "x", "y", "z"}

Letters == Upper \cup Lower

\* \w of a regular expression without the u flag, so \b sees every
\* character outside ASCII as a non-word character
WordChars == Letters \cup Digits \cup {"_"}

\* \s, and the characters String.prototype.trim removes
\* (u00A0 no-break space, u3000 ideographic space)
WhiteSpace == {" ", "\t", "\n", "\r", "\f", "u00A0", "u3000"}

\* the sentence terminals of splitSentencesCN: ideographic full stop,
\* full-width question mark, full-width exclamation mark
Terminals == {"u3002", "uFF1F", "uFF01"}

-----------------------------------------------------------------------------
(* Regular expressions, as JavaScript's backtracking matcher runs them.    *)
(* Ends(r, s, i) is the sequence of offsets at which a match of r that     *)
(* starts at offset i can end, in the order the matcher tries them; the    *)
(* match it reports is the first.                                          *)

Chr(S)         == [t |-> "set", set |-> S]
Lit(c)         == Chr({c})
NotChr(S)      == [t |-> "notset", set |-> S]                    \* [^...]
AnyChar        == NotChr({"\n", "\r", "u2028", "u2029"})         \* the dot
Cat(ps)        == [t |-> "cat", parts |-> ps]
Alt(as)        == [t |-> "alt", alts |-> as]
Rep(r, lo, hi) == [t |-> "rep", r |-> r, min |-> lo, max |-> hi]  \* hi = -1: no limit
Star(r)        == Rep(r, 0, -1)
Plus(r)        == Rep(r, 1, -1)
Opt(r)         == Rep(r, 0, 1)
WordBoundary   == [t |-> "wb"]
LookBehind(S)  == [t |-> "lookbehind", set |-> S]
BeginOfInput   == [t |-> "bol"]
EndOfInput     == [t |-> "eol"]

RECURSIVE LitSeq(_)
LitSeq(cs) == IF cs = <<>> THEN <<>> ELSE <<Lit(Head(cs))>> \o LitSeq(Tail(cs))

\* a literal word
Word(cs) == Cat(LitSeq(cs))

IsWordAt(s, k) == k >= 1 /\ k <= Len(s) /\ s[k] \in WordChars

RECURSIVE Ends(_, _, _), EndsFrom(_, _, _)
EndsFrom(r, s, starts) ==
    IF starts = <<>> THEN <<>>
    ELSE Ends(r, s, Head(starts)) \o EndsFrom(r, s, Tail(starts))

Ends(r, s, i) ==
    CASE r.t = "set" ->
            IF i < Len(s) /\ s[i + 1] \in r.set THEN <<i + 1>> ELSE <<>>
      [] r.t = "notset" ->
            IF i < Len(s) /\ s[i + 1] \notin r.set THEN <<i + 1>> ELSE <<>>
      [] r.t = "cat" ->
            IF r.parts = <<>> THEN <<i>>
            ELSE EndsFrom(Cat(Tail(r.parts)), s, Ends(Head(r.parts), s, i))
      [] r.t = "alt" ->
            IF r.alts = <<>> THEN <<>>
            ELSE Ends(Head(r.alts), s, i) \o Ends(Alt(Tail(r.alts)), s, i)
      [] r.t = "rep" ->
            \* greedy: one more iteration first, stopping here last
            LET more == IF r.max = 0 THEN <<>>
                        ELSE SelectSeq(Ends(r.r, s, i), LAMBDA e : e > i)
                rest == Rep(r.r,
                            IF r.min > 0 THEN r.min - 1 ELSE 0,
                            IF r.max > 0 THEN r.max - 1 ELSE r.max)
            IN  EndsFrom(rest, s, more) \o (IF r.min <= 0 THEN <<i>> ELSE <<>>)
      [] r.t = "wb" ->
            IF IsWordAt(s, i) # IsWordAt(s, i + 1) THEN <<i>> ELSE <<>>
      [] r.t = "lookbehind" ->
            IF i >= 1 /\ s[i] \in r.set THEN <<i>> ELSE <<>>
      [] r.t = "bol" -> IF i = 0 THEN <<i>> ELSE <<>>
      [] r.t = "eol" -> IF i = Len(s) THEN <<i>> ELSE <<>>

Matches(r, s, i) == Ends(r, s, i) # <<>>

\* RegExp.prototype.test: some offset starts a match
Test(r, s) == \E i \in 0..Len(s) : Matches(r, s, i)

Slice(s, from, to) == SubSeq(s, from + 1, to)

\* the matches of a /g expression, left to right, as [from, to] offsets:
\* after a match the search resumes at its end (one further on when the
\* match is empty)
\* the first offset from i on at which the expression matches, -1 if none
FirstMatch(r, s, i) ==
    IF \A j \in i..Len(s) : ~Matches(r, s, j) THEN -1
    ELSE CHOOSE j \in i..Len(s) :
            Matches(r, s, j) /\ \A k \in i..(j - 1) : ~Matches(r, s, k)

RECURSIVE ScanFrom(_, _, _)
ScanFrom(r, s, i) ==
    CHOOSE ms \in
        {IF from = -1 THEN <<>>
         ELSE LET e == Head(Ends(r, s, from))
              IN  <<[from |-> from, to |-> e]>>
                    \o ScanFrom(r, s, IF e = from THEN from + 1 ELSE e) :
           from \in {FirstMatch(r, s, i)}} : TRUE

\* String.prototype.match with a /g expression: the matched substrings
RECURSIVE SlicesOf(_, _)
SlicesOf(s, ms) ==
    IF ms = <<>> THEN <<>>
    ELSE <<Slice(s, Head(ms).from, Head(ms).to)>> \o SlicesOf(s, Tail(ms))

MatchAll(r, s) == SlicesOf(s, ScanFrom(r, s, 0))

\* String.prototype.replace with a /g expression and a fixed replacement
RECURSIVE ReplaceFrom(_, _, _, _)
ReplaceFrom(s, ms, at, by) ==
    IF ms = <<>> THEN Slice(s, at, Len(s))
    ELSE Slice(s, at, Head(ms).from) \o by
           \o ReplaceFrom(s, Tail(ms), Head(ms).to, by)

ReplaceAll(r, s, by) == ReplaceFrom(s, ScanFrom(r, s, 0), 0, by)

\* String.prototype.split with an expression: p is the start of the piece
\* being collected, q the offset tried next; a match that would end where
\* the piece starts is passed over, the rest of the input is the last piece
\* the first offset from q on at which a match ends past p, -1 if none
FirstCut(r, s, p, q) ==
    LET Cuts(j) == LET es == Ends(r, s, j) IN es # <<>> /\ Head(es) # p
    IN  IF \A j \in q..(Len(s) - 1) : ~Cuts(j) THEN -1
        ELSE CHOOSE j \in q..(Len(s) - 1) :
                Cuts(j) /\ \A k \in q..(j - 1) : ~Cuts(k)

RECURSIVE SplitFrom(_, _, _, _)
SplitFrom(r, s, p, q) ==
    CHOOSE parts \in
        {IF at = -1 THEN <<Slice(s, p, Len(s))>>
         ELSE <<Slice(s, p, at)>> \o SplitFrom(r, s, e, e) :
           <<at, e>> \in {<<j, IF j = -1 THEN -1 ELSE Head(Ends(r, s, j))>> :
                            j \in {FirstCut(r, s, p, q)}}} : TRUE

Split(r, s) ==
    IF Len(s) = 0 THEN (IF Matches(r, s, 0) THEN <<>> ELSE <<s>>)
    ELSE SplitFrom(r, s, 0, 0)

\* String.prototype.trim
RECURSIVE TrimStart(_), TrimEnd(_)
TrimStart(s) ==
    IF s # <<>> /\ Head(s) \in WhiteSpace THEN TrimStart(Tail(s)) ELSE s
TrimEnd(s) ==
    IF s # <<>> /\ s[Len(s)] \in WhiteSpace
    THEN TrimEnd(SubSeq(s, 1, Len(s) - 1)) ELSE s
Trim(s) == TrimEnd(TrimStart(s))

\* String.prototype.includes
Includes(s, sub) ==
    \E i \in 0..(Len(s) - Len(sub)) : Slice(s, i, i + Len(sub)) = sub

-----------------------------------------------------------------------------
(* text.ts                                                                 *)

\* the same steps with the /g flag of /\r/ missing: only the first lone
\* carriage return is converted
normalizeTextFirstCROnly(t) ==
    LET s1 == ReplaceAll(Word(<<"\r", "\n">>), t, <<"\n">>)
        cr == ScanFrom(Lit("\r"), s1, 0)
        s2 == IF cr = <<>> THEN s1
              ELSE Slice(s1, 0, Head(cr).from) \o <<"\n">>
                     \o Slice(s1, Head(cr).to, Len(s1))
        s3 == ReplaceAll(Rep(Lit("\n"), 3, -1), s2, <<"\n", "\n">>)
        s4 == ReplaceAll(Plus(Chr({" ", "\t"})), s3, <<" ">>)
    IN  Trim(s4)

normalizeText(t) ==
    LET s1 == ReplaceAll(Word(<<"\r", "\n">>), t, <<"\n">>)
        s2 == ReplaceAll(Lit("\r"), s1, <<"\n">>)
        s3 == ReplaceAll(Rep(Lit("\n"), 3, -1), s2, <<"\n", "\n">>)
        s4 == ReplaceAll(Plus(Chr({" ", "\t"})), s3, <<" ">>)
    IN  Trim(s4)

\* /^#+\s/
HeadingRe == Cat(<<BeginOfInput, Plus(Lit("#")), Chr(WhiteSpace)>>)

\* the loop over the parts: k is the part being looked at, index the
\* counter the next retained sentence receives
RECURSIVE SplitLoop(_, _, _)
SplitLoop(parts, k, index) ==
    IF k > Len(parts) THEN <<>>
    ELSE LET trimmed == Trim(parts[k])
         IN  IF trimmed = <<>> THEN SplitLoop(parts, k + 1, index)
             ELSE IF Test(HeadingRe, trimmed) THEN SplitLoop(parts, k + 1, index)
             ELSE IF Len(trimmed) < 2 THEN SplitLoop(parts, k + 1, index)
             ELSE <<[text |-> trimmed, index |-> index]>>
                    \o SplitLoop(parts, k + 1, index + 1)

\* the parts of a split that takes the terminal characters away: /[。？！]/
SentencePartsWithoutTerminal(t) == Split(Chr(Terminals), normalizeText(t))

\* the parts of a split after the full-width semicolon as well
SentencePartsAtSemicolon(t) ==
    Split(LookBehind(Terminals \cup {"uFF1B"}), normalizeText(t))

\* the parts the text falls into: /(?<=[。？！])/
SentenceParts(t) == Split(LookBehind(Terminals), normalizeText(t))

\* the loop with the counter advanced for every part, kept or not
splitSentencesCNByPart(t) ==
    LET parts == SentenceParts(t)
        kept  == SelectSeq([k \in 1..Len(parts) |->
                              [text |-> Trim(parts[k]), index |-> k - 1]],
                           LAMBDA x : x.text # <<>>
                                      /\ ~Test(HeadingRe, x.text)
                                      /\ Len(x.text) >= 2)
    IN  kept

splitSentencesCN(t) == SplitLoop(SentenceParts(t), 1, 0)

-----------------------------------------------------------------------------
(* The texts given to the text functions.                                  *)

MaxTextLen == 5

TextAlphabet == {"\r", "\n", " ", "\t", "a", "#", "u3002"}

RECURSIVE SeqsUpTo(_, _)
SeqsUpTo(S, n) ==
    IF n = 0 THEN {<<>>}
    ELSE LET shorter == SeqsUpTo(S, n - 1)
         IN  shorter \cup {Append(s, c) : s \in {x \in shorter : Len(x) = n - 1}, c \in S}

Texts == SeqsUpTo(TextAlphabet, MaxTextLen)

\* a section: a heading line and a sentence on the line after it,
\* "# a\naa。"
SectionText == <<"#", " ", "a", "\n", "a", "a", "u3002">>

InitText ==
    /\ pc = "start"
    /\ text \in Texts \cup {SectionText}
    /\ normalized = None
    /\ renormalized = None
    /\ sentences = None
    /\ sample = None /\ draft = None /\ standard = None
    /\ weights = None /\ score = None /\ mirror = None
    /\ draftText = None /\ standardText = None /\ guardrails = None
    /\ suggestions = None /\ metrics = None /\ heap = None
    /\ NoClient /\ NoWorkflow /\ NoHook

\* a caller normalizes the text
NormalizeCall ==
    /\ pc = "start"
    /\ normalized' = normalizeText(text)
    /\ pc' = "normalized"
    /\ UNCHANGED <<serviceVars, text, renormalized, sentences, mirrorVars, fidelityVars,
                 citationVars, metricsVars, heap>>

\* and normalizes the result again
RenormalizeCall ==
    /\ pc = "normalized"
    /\ renormalized' = normalizeText(normalized)
    /\ pc' = "renormalized"
    /\ UNCHANGED <<serviceVars, text, normalized, sentences, mirrorVars, fidelityVars,
                 citationVars, metricsVars, heap>>

\* a caller splits the text into sentences
SplitCall ==
    /\ pc = "renormalized"
    /\ sentences' = splitSentencesCN(text)
    /\ pc' = "split"
    /\ UNCHANGED <<serviceVars, text, normalized, renormalized, mirrorVars, fidelityVars,
                 citationVars, metricsVars, heap>>

NextText == NormalizeCall \/ RenormalizeCall \/ SplitCall

SpecText == InitText /\ [][NextText]_vars

-----------------------------------------------------------------------------
(* Texts written with every punctuation mark the segmenter could take for  *)
(* a boundary: the terminals 。？！, the full-width semicolon and the       *)
(* half-width ; . ? !                                                      *)

MaxBoundaryLen == 3

BoundaryAlphabet ==
    {"a", "#", " ", "\n", "u3002", "uFF1F", "uFF01", "uFF1B", ";", ".", "?", "!"}

\* "近年来，深度学习技术得到了广泛关注。"
SingleSentence ==
    <<"u8FD1", "u5E74", "u6765", "uFF0C", "u6DF1", "u5EA6", "u5B66",
      "u4E60", "u6280", "u672F", "u5F97", "u5230", "u4E86", "u5E7F",
      "u6CDB", "u5173", "u6CE8", "u3002">>

\* "a；b;c.d?e!f。g？h！"
MixedPunctuation ==
    <<"a", "uFF1B", "b", ";", "c", ".", "d", "?", "e", "!", "f", "u3002",
      "g", "uFF1F", "h", "uFF01">>

BoundaryTexts ==
    SeqsUpTo(BoundaryAlphabet, MaxBoundaryLen) \cup {SingleSentence, MixedPunctuation}

InitBoundary ==
    /\ pc = "start"
    /\ text \in BoundaryTexts
    /\ normalized = None
    /\ renormalized = None
    /\ sentences = None
    /\ sample = None /\ draft = None /\ standard = None
    /\ weights = None /\ score = None /\ mirror = None
    /\ draftText = None /\ standardText = None /\ guardrails = None
    /\ suggestions = None /\ metrics = None /\ heap = None
    /\ NoClient /\ NoWorkflow /\ NoHook

SpecBoundary == InitBoundary /\ [][NextText]_vars


-----------------------------------------------------------------------------
(* Exact arithmetic: a number is a fraction [n, d] in lowest terms, d > 0. *)

RECURSIVE Gcd(_, _)
Gcd(a, b) == IF b = 0 THEN a ELSE Gcd(b, a % b)

AbsInt(a) == IF a < 0 THEN -a ELSE a

Frac(n, d) ==
    LET g == Gcd(AbsInt(n), AbsInt(d))
        sgn == IF d < 0 THEN -1 ELSE 1
    IN  [n |-> sgn * (n \div g), d |-> sgn * (d \div g)]

Num(k) == [n |-> k, d |-> 1]

RatAdd(x, y) ==
    LET l == (x.d \div Gcd(x.d, y.d)) * y.d
    IN  Frac(x.n * (l \div x.d) + y.n * (l \div y.d), l)
RatNeg(x)    == [n |-> -x.n, d |-> x.d]
RatSub(x, y) == RatAdd(x, RatNeg(y))
RatMul(x, y) ==
    LET a == Frac(x.n, y.d)
        b == Frac(y.n, x.d)
    IN  [n |-> a.n * b.n, d |-> a.d * b.d]
RatDiv(x, y) == RatMul(x, Frac(y.d, y.n))
RatAbs(x)    == [n |-> AbsInt(x.n), d |-> x.d]
RatLe(x, y)  == RatSub(x, y).n <= 0
RatMin(x, y) == IF RatLe(x, y) THEN x ELSE y

\* Math.round: the nearest integer, a half rounded up
Round(x) == (2 * x.n + x.d) \div (2 * x.d)

\* Math.round(x * 10) / 10
Round1(x) == Frac(Round(RatMul(x, Num(10))), 10)

-----------------------------------------------------------------------------
(* mirrorScore.ts                                                          *)

DEFAULT_WEIGHTS ==
    [sentence    |-> Frac(4, 10),
     connectors  |-> Frac(25, 100),
     punctuation |-> Frac(15, 100),
     templates   |-> Frac(2, 10)]

SENTENCE_LENGTH_MAX_EXPECTED ==
    [mean |-> 50, percentile |-> 50, p90 |-> 100, longRate |-> 100]

PUNCTUATION_MAX_EXPECTED == [comma |-> 30, semicolon |-> 10, parenthesis |-> 20]

TEMPLATE_MAX_EXPECTED == 5

\* the difference divided by maxExpected but never clamped
normalizedDiffUnclamped(a, b, maxExpected) ==
    IF maxExpected = 0 THEN Num(0)
    ELSE RatDiv(RatAbs(RatSub(a, b)), Num(maxExpected))

normalizedDiff(a, b, maxExpected) ==
    IF maxExpected = 0 THEN Num(0)
    ELSE LET diff == RatAbs(RatSub(a, b))
         IN  RatMin(RatDiv(diff, Num(maxExpected)), Num(1))

\* the median of the target compared with the 90th percentile of the sample
sentenceLengthDistanceFieldSlip(target, smp) ==
    LET meanDiff     == normalizedDiff(target.mean, smp.mean,
                                       SENTENCE_LENGTH_MAX_EXPECTED.mean)
        p50Diff      == normalizedDiff(target.p50, smp.p90,
                                       SENTENCE_LENGTH_MAX_EXPECTED.percentile)
        p90Diff      == normalizedDiff(target.p90, smp.p90,
                                       SENTENCE_LENGTH_MAX_EXPECTED.p90)
        longRateDiff == normalizedDiff(target.longRate50, smp.longRate50,
                                       SENTENCE_LENGTH_MAX_EXPECTED.longRate)
    IN  RatAdd(RatAdd(RatAdd(RatMul(meanDiff, Frac(4, 10)),
                             RatMul(p50Diff, Frac(3, 10))),
                      RatMul(p90Diff, Frac(2, 10))),
               RatMul(longRateDiff, Frac(1, 10)))

sentenceLengthDistance(target, smp) ==
    LET meanDiff     == normalizedDiff(target.mean, smp.mean,
                                       SENTENCE_LENGTH_MAX_EXPECTED.mean)
        p50Diff      == normalizedDiff(target.p50, smp.p50,
                                       SENTENCE_LENGTH_MAX_EXPECTED.percentile)
        p90Diff      == normalizedDiff(target.p90, smp.p90,
                                       SENTENCE_LENGTH_MAX_EXPECTED.p90)
        longRateDiff == normalizedDiff(target.longRate50, smp.longRate50,
                                       SENTENCE_LENGTH_MAX_EXPECTED.longRate)
    IN  RatAdd(RatAdd(RatAdd(RatMul(meanDiff, Frac(4, 10)),
                             RatMul(p50Diff, Frac(3, 10))),
                      RatMul(p90Diff, Frac(2, 10))),
               RatMul(longRateDiff, Frac(1, 10)))

connectorDistance(target, smp) ==
    LET targetTotal == IF target.total = 0 THEN 1 ELSE target.total
        sampleTotal == IF smp.total = 0 THEN 1 ELSE smp.total
        targetProportions ==
            [causal      |-> Frac(target.causal, targetTotal),
             adversative |-> Frac(target.adversative, targetTotal),
             additive    |-> Frac(target.additive, targetTotal),
             emphatic    |-> Frac(target.emphatic, targetTotal)]
        sampleProportions ==
            [causal      |-> Frac(smp.causal, sampleTotal),
             adversative |-> Frac(smp.adversative, sampleTotal),
             additive    |-> Frac(smp.additive, sampleTotal),
             emphatic    |-> Frac(smp.emphatic, sampleTotal)]
        l1Distance ==
            RatAdd(RatAdd(RatAdd(
                RatAbs(RatSub(targetProportions.causal, sampleProportions.causal)),
                RatAbs(RatSub(targetProportions.adversative,
                              sampleProportions.adversative))),
                RatAbs(RatSub(targetProportions.additive, sampleProportions.additive))),
                RatAbs(RatSub(targetProportions.emphatic, sampleProportions.emphatic)))
    IN  RatMin(RatDiv(l1Distance, Num(2)), Num(1))

punctuationDistance(target, smp) ==
    LET commaDiff       == normalizedDiff(target.comma, smp.comma,
                                          PUNCTUATION_MAX_EXPECTED.comma)
        semicolonDiff   == normalizedDiff(target.semicolon, smp.semicolon,
                                          PUNCTUATION_MAX_EXPECTED.semicolon)
        parenthesisDiff == normalizedDiff(target.parenthesis, smp.parenthesis,
                                          PUNCTUATION_MAX_EXPECTED.parenthesis)
    IN  RatAdd(RatAdd(RatMul(commaDiff, Frac(5, 10)),
                      RatMul(semicolonDiff, Frac(25, 100))),
               RatMul(parenthesisDiff, Frac(25, 100)))

templateDistance(target, smp) ==
    normalizedDiff(target.perThousandChars, smp.perThousandChars,
                   TEMPLATE_MAX_EXPECTED)

weightedDistance(target, smp, w) ==
    LET sentenceDist    == sentenceLengthDistance(target.sentenceLength,
                                                  smp.sentenceLength)
        connectorDist   == connectorDistance(target.connectorCounts,
                                             smp.connectorCounts)
        punctuationDist == punctuationDistance(target.punctuationDensity,
                                               smp.punctuationDensity)
        templateDist    == templateDistance(target.templateCounts,
                                            smp.templateCounts)
    IN  RatAdd(RatAdd(RatAdd(RatMul(sentenceDist, w.sentence),
                             RatMul(connectorDist, w.connectors)),
                      RatMul(punctuationDist, w.punctuation)),
               RatMul(templateDist, w.templates))

\* w is the value of the weights parameter: DEFAULT_WEIGHTS when the caller
\* passes no weights
calculateMirrorScore(target, smp, w) ==
    LET scr == RatMul(RatSub(Num(1), weightedDistance(target, smp, w)),
                      Num(100))
    IN  Round1(scr)

\* the two scores taken the other way round
generateMirrorScoreSwapped(smp, drf, std, w) ==
    LET draftToSample    == calculateMirrorScore(std, smp, w)
        standardToSample == calculateMirrorScore(drf, smp, w)
    IN  [draftToSample    |-> draftToSample,
         standardToSample |-> standardToSample,
         improvement      |-> Round1(RatSub(standardToSample, draftToSample)),
         weights          |-> w]

generateMirrorScore(smp, drf, std, w) ==
    LET draftToSample    == calculateMirrorScore(drf, smp, w)
        standardToSample == calculateMirrorScore(std, smp, w)
    IN  [draftToSample    |-> draftToSample,
         standardToSample |-> standardToSample,
         improvement      |-> Round1(RatSub(standardToSample, draftToSample)),
         weights          |-> w]

-----------------------------------------------------------------------------
(* The metric profiles given to the score functions: well-formed           *)
(* DetailedMetrics (no negative field, connector total the sum of the      *)
(* four categories, longRate50 a percentage).  A profile is laid out by a  *)
(* level for its sentence lengths, a level for its punctuation and         *)
(* template densities, and its four connector counts.                      *)

MaxLevel == 2

MaxConnectors == 1

Min(a, b) == IF a <= b THEN a ELSE b

SentenceLengthAt(a) ==
    [mean       |-> Frac(305 * a, 10),
     p50        |-> Frac(280 * a, 10),
     p90        |-> Frac(525 * a, 10),
     longRate50 |-> Frac(Min(1000, 500 * a), 10)]

PunctuationAt(b) ==
    [comma       |-> Frac(155 * b, 10),
     semicolon   |-> Frac(63 * b, 10),
     parenthesis |-> Frac(104 * b, 10)]

TemplatesAt(b) == [count |-> b, perThousandChars |-> Frac(275 * b, 100)]

ConnectorCountsSet ==
    {[causal |-> c1, adversative |-> c2, additive |-> c3, emphatic |-> c4,
      total |-> c1 + c2 + c3 + c4] :
        c1 \in 0..MaxConnectors, c2 \in 0..MaxConnectors,
        c3 \in 0..MaxConnectors, c4 \in 0..MaxConnectors}

ConnectorCounts == {c \in ConnectorCountsSet : c.total <= MaxConnectors}

Profile(a, b, c) ==
    [sentenceLength     |-> SentenceLengthAt(a),
     punctuationDensity |-> PunctuationAt(b),
     connectorCounts    |-> c,
     templateCounts     |-> TemplatesAt(b)]

Profiles == {Profile(a, b, c) : a \in 0..MaxLevel, b \in 0..MaxLevel,
                                c \in ConnectorCounts}

\* the profiles given to generateMirrorScore: the two levels are also the
\* counts of causal and adversative connectors
LevelProfiles ==
    {Profile(a, b, [causal |-> a, adversative |-> b, additive |-> 0,
                    emphatic |-> 0, total |-> a + b]) :
        a \in 0..MaxLevel, b \in 0..MaxLevel}

\* the weights parameter: the default, or an override a caller passes
UnitWeights == [sentence |-> Num(1), connectors |-> Num(1),
                punctuation |-> Num(1), templates |-> Num(1)]

WeightArguments == {DEFAULT_WEIGHTS, UnitWeights}

InitScore ==
    /\ pc = "start"
    /\ draft \in Profiles
    /\ sample \in Profiles
    /\ standard = None /\ weights = None /\ score = None /\ mirror = None
    /\ text = None /\ normalized = None /\ renormalized = None /\ sentences = None
    /\ draftText = None /\ standardText = None /\ guardrails = None
    /\ suggestions = None /\ metrics = None /\ heap = None
    /\ NoClient /\ NoWorkflow /\ NoHook

\* calculateMirrorScore(draft, sample), the weights left to their default
ScoreCall ==
    /\ pc = "start"
    /\ score' = calculateMirrorScore(draft, sample, DEFAULT_WEIGHTS)
    /\ pc' = "scored"
    /\ UNCHANGED <<serviceVars, sample, draft, standard, weights, mirror, textVars, fidelityVars,
                 citationVars, metricsVars, heap>>

NextScore == ScoreCall

SpecScore == InitScore /\ [][NextScore]_vars

InitMirror ==
    /\ pc = "start"
    /\ sample \in LevelProfiles
    /\ draft \in LevelProfiles
    /\ standard \in LevelProfiles
    /\ weights \in WeightArguments
    /\ score = None /\ mirror = None
    /\ text = None /\ normalized = None /\ renormalized = None /\ sentences = None
    /\ draftText = None /\ standardText = None /\ guardrails = None
    /\ suggestions = None /\ metrics = None /\ heap = None
    /\ NoClient /\ NoWorkflow /\ NoHook

GenerateCall ==
    /\ pc = "start"
    /\ mirror' = generateMirrorScore(sample, draft, standard, weights)
    /\ pc' = "generated"
    /\ UNCHANGED <<serviceVars, sample, draft, standard, weights, score, textVars, fidelityVars,
                 citationVars, metricsVars, heap>>

NextMirror == GenerateCall

SpecMirror == InitMirror /\ [][NextMirror]_vars

-----------------------------------------------------------------------------
(* The weights objects as the program holds them: by reference.  heap maps *)
(* a reference to the fields of its object.  DEFAULT_WEIGHTS is created    *)
(* once, when the module is loaded, and lives across calls; a caller may   *)
(* pass an object of its own instead, and may write to any object it       *)
(* holds a reference to, the weights of a returned MirrorScore included.   *)

DefaultRef == "DEFAULT_WEIGHTS"
CallerRef  == "callerWeights"

WeightFields == {"sentence", "connectors", "punctuation", "templates"}

\* the values a caller writes into a field
WrittenValues == {Num(0), Num(1)}

InitShared ==
    /\ pc = "start"
    /\ heap = [r \in {DefaultRef, CallerRef} |->
                  IF r = DefaultRef THEN DEFAULT_WEIGHTS ELSE UnitWeights]
    /\ sample \in LevelProfiles
    /\ draft \in LevelProfiles
    /\ standard = sample
    /\ weights \in {DefaultRef, CallerRef}
    /\ score = None /\ mirror = None
    /\ text = None /\ normalized = None /\ renormalized = None /\ sentences = None
    /\ draftText = None /\ standardText = None /\ guardrails = None
    /\ suggestions = None /\ metrics = None
    /\ NoClient /\ NoWorkflow /\ NoHook

\* generateMirrorScore(sample, draft, standard) or, with an object of the
\* caller, generateMirrorScore(sample, draft, standard, callerWeights): the
\* parameter is bound to DEFAULT_WEIGHTS itself when the argument is left
\* out, and the result holds the parameter
GenerateByReference ==
    /\ pc = "start"
    /\ mirror' = [generateMirrorScore(sample, draft, standard, heap[weights])
                     EXCEPT !.weights = weights]
    /\ pc' = "generated"
    /\ UNCHANGED <<serviceVars, sample, draft, standard, weights, score, heap, textVars,
                   fidelityVars, citationVars, metricsVars>>

\* the caller assigns to a field of result.weights
MutateReturned ==
    /\ pc \in {"generated", "mutated"}
    /\ \E f \in WeightFields, v \in WrittenValues :
          /\ heap[mirror.weights][f] # v
          /\ heap' = [heap EXCEPT ![mirror.weights][f] = v]
    /\ pc' = "mutated"
    /\ UNCHANGED <<serviceVars, sample, draft, standard, weights, score, mirror, textVars,
                   fidelityVars, citationVars, metricsVars>>

\* a later calculateMirrorScore(draft, sample): the default parameter is
\* the object DEFAULT_WEIGHTS as it is at the time of the call
ScoreLater ==
    /\ pc \in {"generated", "mutated"}
    /\ score' = calculateMirrorScore(draft, sample, heap[DefaultRef])
    /\ pc' = "scored"
    /\ UNCHANGED <<serviceVars, sample, draft, standard, weights, mirror, heap, textVars,
                   fidelityVars, citationVars, metricsVars>>

NextShared == GenerateByReference \/ MutateReturned \/ ScoreLater

SpecShared == InitShared /\ [][NextShared]_vars

-----------------------------------------------------------------------------
(* connectorDistance in the program's own arithmetic.  A number of the     *)
(* program is an IEEE-754 double: 53 significant bits, every division,     *)
(* sum and difference rounded to the nearest double, ties to even.  The    *)
(* doubles that occur here are 0 or lie between 2^-5 and 2; such a double  *)
(* is a multiple of 2^-58 and is held as the count of these units in two   *)
(* limbs of 29 bits, hi * 2^29 + lo.                                       *)

SignificandBits == 53

LimbBits == 29

Limb == 2^LimbBits

DoubleZero == [hi |-> 0, lo |-> 0]
DoubleHalf == [hi |-> Limb \div 2, lo |-> 0]
DoubleOne  == [hi |-> Limb, lo |-> 0]

\* the position of the leading bit of a positive integer
Log2(k) == CHOOSE e \in 0..30 : k \div (2^e) = 1

DoubleLe(x, y) == x.hi < y.hi \/ (x.hi = y.hi /\ x.lo <= y.lo)

\* the double nearest to (hi * 2^29 + lo) units, plus a fraction of a unit
\* when sticky; a tie goes to the even significand
RoundToDouble(hi, lo, sticky) ==
    LET p == IF hi > 0 THEN LimbBits + Log2(hi)
             ELSE IF lo > 0 THEN Log2(lo) ELSE 0
        n == p - (SignificandBits - 1)
    IN  IF n <= 0 THEN [hi |-> hi, lo |-> lo]
        ELSE LET unit    == 2^n
                 low     == lo % unit
                 keptOdd == (lo \div unit) % 2 = 1
                 up      == \/ 2 * low > unit
                            \/ 2 * low = unit /\ (sticky \/ keptOdd)
                 lo1     == lo - low + (IF up THEN unit ELSE 0)
             IN  [hi |-> hi + lo1 \div Limb, lo |-> lo1 % Limb]

\* c / t for integers 0 <= c <= t <= 32: long division in digits of 25, 25
\* and 8 bits, then rounding on the remainder
DoubleQuotientOf(c, t) ==
    IF c = 0 THEN DoubleZero
    ELSE IF c = t THEN DoubleOne
    ELSE LET d1 == (c * 2^25) \div t
             r1 == (c * 2^25) % t
             d2 == (r1 * 2^25) \div t
             r2 == (r1 * 2^25) % t
             d3 == (r2 * 2^8) \div t
             r3 == (r2 * 2^8) % t
         IN  RoundToDouble(d1 * 16 + d2 \div 2^21, (d2 % 2^21) * 2^8 + d3,
                           r3 > 0)

DoubleQuotient(a, b) ==
    CHOOSE q \in {DoubleQuotientOf(c, t) : c \in {a}, t \in {b}} : TRUE

\* x + y
DoubleSumOf(x, y) ==
    RoundToDouble(x.hi + y.hi + (x.lo + y.lo) \div Limb, (x.lo + y.lo) % Limb,
                  FALSE)

DoubleSum(a, b) == CHOOSE s \in {DoubleSumOf(x, y) : x \in {a}, y \in {b}} : TRUE

\* Math.abs(x - y)
DoubleAbsDiffOf(x, y) ==
    IF DoubleLe(y, x)
    THEN RoundToDouble(x.hi - y.hi - (IF x.lo < y.lo THEN 1 ELSE 0),
                       (x.lo - y.lo + Limb) % Limb, FALSE)
    ELSE RoundToDouble(y.hi - x.hi - (IF y.lo < x.lo THEN 1 ELSE 0),
                       (y.lo - x.lo + Limb) % Limb, FALSE)

DoubleAbsDiff(a, b) ==
    CHOOSE s \in {DoubleAbsDiffOf(x, y) : x \in {a}, y \in {b}} : TRUE

\* x / 2: exact, the doubles here have an even count of units
DoubleHalved(x) ==
    [hi |-> x.hi \div 2, lo |-> x.lo \div 2 + (x.hi % 2) * (Limb \div 2)]

\* Math.min
DoubleMin(x, y) == IF DoubleLe(x, y) THEN x ELSE y

\* target.total || 1
TotalOrOne(counts) == IF counts.total = 0 THEN 1 ELSE counts.total

\* the L1 distance of the proportions, clamped but not divided by 2
connectorDistanceUnhalvedOf(targetP, sampleP) ==
    LET l1Distance ==
            DoubleSum(DoubleSum(DoubleSum(
                DoubleAbsDiff(targetP.causal, sampleP.causal),
                DoubleAbsDiff(targetP.adversative, sampleP.adversative)),
                DoubleAbsDiff(targetP.additive, sampleP.additive)),
                DoubleAbsDiff(targetP.emphatic, sampleP.emphatic))
    IN  DoubleMin(l1Distance, DoubleOne)

\* lines 84-92: the L1 distance of the proportions, halved and clamped
connectorDistanceDoubleOf(targetP, sampleP) ==
    LET l1Distance ==
            DoubleSum(DoubleSum(DoubleSum(
                DoubleAbsDiff(targetP.causal, sampleP.causal),
                DoubleAbsDiff(targetP.adversative, sampleP.adversative)),
                DoubleAbsDiff(targetP.additive, sampleP.additive)),
                DoubleAbsDiff(targetP.emphatic, sampleP.emphatic))
    IN  DoubleMin(DoubleHalved(l1Distance), DoubleOne)

connectorDistanceDouble(target, smp) ==
    LET targetTotal == TotalOrOne(target)
        sampleTotal == TotalOrOne(smp)
        targetProportions ==
            [causal      |-> DoubleQuotient(target.causal, targetTotal),
             adversative |-> DoubleQuotient(target.adversative, targetTotal),
             additive    |-> DoubleQuotient(target.additive, targetTotal),
             emphatic    |-> DoubleQuotient(target.emphatic, targetTotal)]
        sampleProportions ==
            [causal      |-> DoubleQuotient(smp.causal, sampleTotal),
             adversative |-> DoubleQuotient(smp.adversative, sampleTotal),
             additive    |-> DoubleQuotient(smp.additive, sampleTotal),
             emphatic    |-> DoubleQuotient(smp.emphatic, sampleTotal)]
    IN  CHOOSE d \in {connectorDistanceDoubleOf(tp, sp) :
                        tp \in {targetProportions}, sp \in {sampleProportions}} :
           TRUE

-----------------------------------------------------------------------------
(* The connector counts given to connectorDistance: the target has every   *)
(* count up to MaxCount, the sample is one of the 0/1 count records taken  *)
(* up to MaxScale times; total is the sum of the four counts, as           *)
(* calculateMetrics sets it.                                               *)

MaxCount == 2

MaxScale == 2

CountsUpTo(m, k) ==
    {[causal |-> k * c1, adversative |-> k * c2, additive |-> k * c3,
      emphatic |-> k * c4, total |-> k * (c1 + c2 + c3 + c4)] :
        c1 \in 0..m, c2 \in 0..m, c3 \in 0..m, c4 \in 0..m}

TargetCounts == CountsUpTo(MaxCount, 1)

SampleCounts == UNION {CountsUpTo(1, k) : k \in 1..MaxScale}

InitConnector ==
    /\ pc = "start"
    /\ draft \in TargetCounts
    /\ sample \in SampleCounts
    /\ standard = None /\ weights = None /\ score = None /\ mirror = None
    /\ text = None /\ normalized = None /\ renormalized = None /\ sentences = None
    /\ draftText = None /\ standardText = None /\ guardrails = None
    /\ suggestions = None /\ metrics = None /\ heap = None
    /\ NoClient /\ NoWorkflow /\ NoHook

\* connectorDistance(draft.connectorCounts, sample.connectorCounts): the
\* value in exact arithmetic and the double the program computes
ConnectorCall ==
    /\ pc = "start"
    /\ score' = [exact  |-> connectorDistance(draft, sample),
                 double |-> connectorDistanceDouble(draft, sample)]
    /\ pc' = "compared"
    /\ UNCHANGED <<serviceVars, sample, draft, standard, weights, mirror, textVars, fidelityVars,
                   citationVars, metricsVars, heap>>

NextConnector == ConnectorCall

SpecConnector == InitConnector /\ [][NextConnector]_vars

-----------------------------------------------------------------------------
(* citationHints.ts: the fidelity guardrails                               *)

UpperSeq == <<"A", "B", "C", "D", "E", "F", "G", "H", "I", "J", "K", "L", "M",
              "N", "O", "P", "Q", "R", "S", "T", "U", "V", "W", "X", "Y", "Z">>

LowerSeq == <<"a", "b", "c", "d", "e", "f", "g", "h", "i", "j", "k", "l", "m",
              "n", "o", "p", "q", "r", "s", "t", "u", "v", "w", "x", "y", "z">>

\* String.prototype.toLowerCase
ToLowerChar(c) ==
    IF c \in Upper THEN LowerSeq[CHOOSE k \in 1..26 : UpperSeq[k] = c] ELSE c
ToUpperChar(c) ==
    IF c \in Lower THEN UpperSeq[CHOOSE k \in 1..26 : LowerSeq[k] = c] ELSE c
ToLowerCase(s) == [k \in 1..Len(s) |-> ToLowerChar(s[k])]

\* a literal under the i flag
RECURSIVE LitSeqI(_)
LitSeqI(cs) ==
    IF cs = <<>> THEN <<>>
    ELSE <<Chr({ToLowerChar(Head(cs)), ToUpperChar(Head(cs))})>> \o LitSeqI(Tail(cs))
WordI(cs) == Cat(LitSeqI(cs))

\* String.prototype.replace with an expression without the g flag
ReplaceFirst(r, s, by) ==
    LET ms == ScanFrom(r, s, 0)
    IN  IF ms = <<>> THEN s
        ELSE Slice(s, 0, Head(ms).from) \o by \o Slice(s, Head(ms).to, Len(s))

\* a Set of strings in insertion order: a sequence without duplicates
Range(q) == {q[k] : k \in 1..Len(q)}
SetAdd(q, x) == IF x \in Range(q) THEN q ELSE Append(q, x)

Digit == Chr(Digits)
\* \d+(?:\.\d+)?
Decimals == Cat(<<Plus(Digit), Opt(Cat(<<Lit("."), Plus(Digit)>>))>>)

\* mm|cm|m|km|mg|g|kg|ml|L|℃|°C|Hz|kHz|MHz|GHz|ms|s|min|h under the i flag
\* (u2103 is the degree Celsius sign, u00B0 the degree sign)
UnitRe ==
    Alt(<<WordI(<<"m", "m">>), WordI(<<"c", "m">>), WordI(<<"m">>),
          WordI(<<"k", "m">>), WordI(<<"m", "g">>), WordI(<<"g">>),
          WordI(<<"k", "g">>), WordI(<<"m", "l">>), WordI(<<"L">>),
          WordI(<<"u2103">>), WordI(<<"u00B0", "C">>), WordI(<<"H", "z">>),
          WordI(<<"k", "H", "z">>), WordI(<<"M", "H", "z">>),
          WordI(<<"G", "H", "z">>), WordI(<<"m", "s">>), WordI(<<"s">>),
          WordI(<<"m", "i", "n">>), WordI(<<"h">>)>>)

\* the five patterns of extractNumbers, in the order they are applied
NumberPatterns ==
    <<Cat(<<Decimals, Lit("%")>>),
      Cat(<<Decimals, Chr({"e", "E"}), Opt(Chr({"+", "-"})), Plus(Digit)>>),
      Cat(<<Decimals, UnitRe>>),
      Cat(<<Plus(Digit), Lit("."), Plus(Digit)>>),
      Rep(Digit, 2, -1)>>

\* match.toLowerCase().replace(/\.0+$/, '')
NormalizeNumber(m) ==
    ReplaceFirst(Cat(<<Lit("."), Plus(Lit("0")), EndOfInput>>), ToLowerCase(m), <<>>)

\* every match of every pattern, pattern by pattern
RECURSIVE AllMatches(_, _)
AllMatches(patterns, t) ==
    IF patterns = <<>> THEN <<>>
    ELSE MatchAll(Head(patterns), t) \o AllMatches(Tail(patterns), t)

RECURSIVE AddNumbers(_, _)
AddNumbers(numbers, ms) ==
    IF ms = <<>> THEN numbers
    ELSE AddNumbers(SetAdd(numbers, NormalizeNumber(Head(ms))), Tail(ms))

extractNumbers(t) == AddNumbers(<<>>, AllMatches(NumberPatterns, t))

\* the three patterns of extractAcronyms
AcronymPatterns ==
    <<Cat(<<WordBoundary, Rep(Chr(Upper), 2, -1), Star(Digit), WordBoundary>>),
      Cat(<<WordBoundary, Chr(Upper), Star(Chr(Letters)), Chr(Upper),
            Star(Chr(Letters)), Star(Digit), WordBoundary>>),
      Cat(<<WordBoundary, Chr(Upper), Plus(Chr(Lower)),
            Opt(Cat(<<Lit("-"), Chr(Upper \cup Digits),
                      Star(Chr(Letters \cup Digits))>>)),
            WordBoundary>>)>>

\* /^(The|This|That|These|Those|With|From|Into|Upon)$/
CommonWordRe ==
    Cat(<<BeginOfInput,
          Alt(<<Word(<<"T", "h", "e">>), Word(<<"T", "h", "i", "s">>),
                Word(<<"T", "h", "a", "t">>), Word(<<"T", "h", "e", "s", "e">>),
                Word(<<"T", "h", "o", "s", "e">>), Word(<<"W", "i", "t", "h">>),
                Word(<<"F", "r", "o", "m">>), Word(<<"I", "n", "t", "o">>),
                Word(<<"U", "p", "o", "n">>)>>),
          EndOfInput>>)

RECURSIVE AddAcronyms(_, _)
AddAcronyms(acronyms, ms) ==
    IF ms = <<>> THEN acronyms
    ELSE LET m == Head(ms)
         IN  IF Len(m) >= 2 /\ ~Test(CommonWordRe, m)
             THEN AddAcronyms(SetAdd(acronyms, m), Tail(ms))
             ELSE AddAcronyms(acronyms, Tail(ms))

extractAcronyms(t) == AddAcronyms(<<>>, AllMatches(AcronymPatterns, t))

\* the loop that counts the retained items
RECURSIVE Retained(_, _)
Retained(original, rewritten) ==
    IF original = <<>> THEN 0
    ELSE (IF Head(original) \in Range(rewritten) THEN 1 ELSE 0)
           + Retained(Tail(original), rewritten)

\* the retained items divided by the size of the rewritten set
calculateRetentionRateOfRewritten(original, rewritten) ==
    IF Len(original) = 0 THEN Num(100)
    ELSE IF Len(rewritten) = 0 THEN Num(0)
    ELSE Round1(RatMul(Frac(Retained(original, rewritten), Len(rewritten)), Num(100)))

\* a percentage with one decimal
calculateRetentionRate(original, rewritten) ==
    IF Len(original) = 0 THEN Num(100)
    ELSE Round1(RatMul(Frac(Retained(original, rewritten), Len(original)), Num(100)))

\* the items of the rewritten set that the original does not hold
findMissingItemsReversed(original, rewritten) ==
    SelectSeq(rewritten, LAMBDA item : item \notin Range(original))

findMissingItems(original, rewritten) ==
    SelectSeq(original, LAMBDA item : item \notin Range(rewritten))

RECURSIVE FirstIncluding(_, _)
FirstIncluding(sents, token) ==
    IF sents = <<>> THEN -1
    ELSE IF Includes(Head(sents).text, token) THEN Head(sents).index
    ELSE FirstIncluding(Tail(sents), token)

findSentenceIndex(t, token) == FirstIncluding(splitSentencesCN(t), token)

\* the fixed beginning of an alert's detail, "缺失数字: " and "缺失缩略词: "
NumberLossPrefix  == <<"u7F3A", "u5931", "u6570", "u5B57", ":", " ">>
AcronymChangePrefix == <<"u7F3A", "u5931", "u7F29", "u7565", "u8BCD", ":", " ">>

\* .slice(0, 5)
AlertLimit == 5

\* every missing item, without the limit
FirstFiveUnlimited(q) == q

FirstFive(q) == SubSeq(q, 1, Min(Len(q), AlertLimit))

Alerts(t, missing, type, prefix) ==
    [k \in 1..Len(missing) |->
        [type          |-> type,
         sentenceIndex |-> findSentenceIndex(t, missing[k]),
         detail        |-> prefix \o missing[k]]]

calculateFidelityGuardrails(dText, sText) ==
    LET draftNumbers     == extractNumbers(dText)
        standardNumbers  == extractNumbers(sText)
        draftAcronyms    == extractAcronyms(dText)
        standardAcronyms == extractAcronyms(sText)
        missingNumbers   == findMissingItems(draftNumbers, standardNumbers)
        missingAcronyms  == findMissingItems(draftAcronyms, standardAcronyms)
    IN  [numberRetentionRate  |-> calculateRetentionRate(draftNumbers, standardNumbers),
         acronymRetentionRate |-> calculateRetentionRate(draftAcronyms, standardAcronyms),
         alerts |-> Alerts(dText, FirstFive(missingNumbers), "number_loss",
                           NumberLossPrefix)
                    \o Alerts(dText, FirstFive(missingAcronyms), "acronym_change",
                              AcronymChangePrefix)]

-----------------------------------------------------------------------------
(* The texts given to the guardrails: up to MaxFragments fragments written *)
(* one after the other, and the two texts of the documented scenario.      *)

MaxFragments == 2

Fragments ==
    {<<"9", "5", ".", "5", "%">>,
     <<"9", "5">>,
     <<"R", "e", "s", "N", "e", "t">>,
     <<"C", "N", "N">>,
     <<"u3002">>}

RECURSIVE Joined(_)
Joined(n) ==
    IF n = 0 THEN {<<>>}
    ELSE Joined(n - 1) \cup {t \o f : t \in Joined(n - 1), f \in Fragments}

FragmentTexts == Joined(MaxFragments)

\* "准确率达到95.5%，使用了ResNet-50模型。"
ScenarioDraft ==
    <<"u51C6", "u786E", "u7387", "u8FBE", "u5230", "9", "5", ".", "5", "%",
      "uFF0C", "u4F7F", "u7528", "u4E86", "R", "e", "s", "N", "e", "t", "-",
      "5", "0", "u6A21", "u578B", "u3002">>

\* "准确率达到95.5%。"
ScenarioStandard ==
    <<"u51C6", "u786E", "u7387", "u8FBE", "u5230", "9", "5", ".", "5", "%",
      "u3002">>

\* a draft that loses more than five numbers and more than five acronyms:
\* "1E5 12。23。34。45。56。67。AB。CD。EF。GH。IJ。KL。MN。"
LossyDraft ==
    <<"1", "E", "5", " ", "1", "2", "u3002", "2", "3", "u3002",
      "3", "4", "u3002", "4", "5", "u3002", "5", "6", "u3002",
      "6", "7", "u3002", "A", "B", "u3002", "C", "D", "u3002",
      "E", "F", "u3002", "G", "H", "u3002", "I", "J", "u3002",
      "K", "L", "u3002", "M", "N", "u3002">>

\* "23。AB。"
LossyStandard == <<"2", "3", "u3002", "A", "B", "u3002">>

\* the units of the third pattern of extractNumbers, in the order of its
\* alternation
UnitList ==
    <<<<"m", "m">>, <<"c", "m">>, <<"m">>, <<"k", "m">>, <<"m", "g">>, <<"g">>,
      <<"k", "g">>, <<"m", "l">>, <<"L">>, <<"u2103">>, <<"u00B0", "C">>,
      <<"H", "z">>, <<"k", "H", "z">>, <<"M", "H", "z">>, <<"G", "H", "z">>,
      <<"m", "s">>, <<"s">>, <<"m", "i", "n">>, <<"h">>>>

\* the number 10 immediately followed by a unit: "10mg", "10ml", ...
AmountOf(unit) == <<"1", "0">> \o unit

UnitTexts == {AmountOf(UnitList[k]) : k \in 1..Len(UnitList)}

\* "Hello world", "This CNN", "Gpt-4"
PlainWordText == <<"H", "e", "l", "l", "o", " ", "w", "o", "r", "l", "d">>
StoplistText  == <<"T", "h", "i", "s", " ", "C", "N", "N">>
SuffixedText  == <<"G", "p", "t", "-", "4">>

TokenTexts == UnitTexts \cup {PlainWordText, StoplistText, SuffixedText}

InitFidelity ==
    /\ pc = "start"
    /\ \/ draftText \in FragmentTexts /\ standardText \in FragmentTexts
       \/ draftText \in TokenTexts /\ standardText \in TokenTexts
       \/ draftText = ScenarioDraft /\ standardText = ScenarioStandard
       \/ draftText = LossyDraft /\ standardText = LossyStandard
    /\ guardrails = None
    /\ text = None /\ normalized = None /\ renormalized = None /\ sentences = None
    /\ sample = None /\ draft = None /\ standard = None
    /\ weights = None /\ score = None /\ mirror = None
    /\ suggestions = None /\ metrics = None /\ heap = None
    /\ NoClient /\ NoWorkflow /\ NoHook

GuardrailsCall ==
    /\ pc = "start"
    /\ guardrails' = calculateFidelityGuardrails(draftText, standardText)
    /\ pc' = "checked"
    /\ UNCHANGED <<serviceVars, draftText, standardText, textVars, mirrorVars,
                 citationVars, metricsVars, heap>>

NextFidelity == GuardrailsCall

SpecFidelity == InitFidelity /\ [][NextFidelity]_vars

-----------------------------------------------------------------------------
(* citationHints.ts: the citation detector                                 *)

\* the characters of [一-龥] that the patterns and the texts of the
\* model are written with
CJK ==
    {"u4E00", "u4E0B", "u4E0D", "u4E0E", "u4E1A", "u4E3A", "u4E49",
     "u4E4B", "u4E60", "u4E86", "u4E8E", "u4EBA", "u4EEC", "u4F18",
     "u4F20", "u4F30", "u4F5C", "u4F7F", "u4F8B", "u501F", "u5165",
     "u5173", "u5178", "u51C6", "u51FA", "u5206", "u5230", "u5236",
     "u524D", "u52A3", "u534F", "u5360", "u53C2", "u53D1", "u56FD",
     "u5728", "u578B", "u57FA", "u589E", "u5927", "u5982", "u5B58",
     "u5B66", "u5B9A", "u5B9E", "u5BB6", "u5BF9", "u5C55", "u5DE5",
     "u5DF2", "u5E38", "u5E74", "u5E7F", "u5E94", "u5EA6", "u5F15",
     "u6210", "u6211", "u6280", "u62A5", "u6307", "u6309", "u636E",
     "u63D0", "u6570", "u6587", "u65B0", "u65B9", "u65E5", "u660E",
     "u663E", "u666E", "u6709", "u672C", "u672F", "u673A", "u6765",
     "u6790", "u67B6", "u67E5", "u6807", "u6839", "u6846", "u6A21",
     "u6BD4", "u6CD5", "u6CDB", "u6CE8", "u6DF1", "u7167", "u72B6",
     "u732E", "u73B0", "u7406", "u7528", "u7684", "u76CA", "u76F8",
     "u7740", "u7814", "u793A", "u79CD", "u7A76", "u7B97", "u7CFB",
     "u7EA6", "u7ECF", "u7EDC", "u7EDF", "u7EFC", "u7F51", "u8003",
     "u8005", "u8303", "u884C", "u8868", "u88AB", "u89C4", "u8BA1",
     "u8BA4", "u8BAE", "u8BBA", "u8BBE", "u8BC4", "u8BE5", "u8C03",
     "u8D85", "u8DB3", "u8F83", "u8FBE", "u8FC7", "u8FD0", "u8FD1",
     "u8FDB", "u8FF0", "u901A", "u904D", "u9053", "u91C7", "u91CF",
     "u9274", "u957F", "u9645", "u964D", "u968F", "u9A8C"}

\* CITATION_PATTERNS, category by category in the order of Object.entries;
\* a pattern is given to new RegExp without flags
\* background: 近年来  广泛关注  已被广泛应用  已有研究表明  文献报道  研究发现  前人研究  现有研究  大量研究  学者们  随着.*的发展  日益增长  已成为  普遍认为  通常认为
BackgroundPatterns ==
    <<Word(<<"u8FD1", "u5E74", "u6765">>),
      Word(<<"u5E7F", "u6CDB", "u5173", "u6CE8">>),
      Word(<<"u5DF2", "u88AB", "u5E7F", "u6CDB", "u5E94", "u7528">>),
      Word(<<"u5DF2", "u6709", "u7814", "u7A76", "u8868", "u660E">>),
      Word(<<"u6587", "u732E", "u62A5", "u9053">>),
      Word(<<"u7814", "u7A76", "u53D1", "u73B0">>),
      Word(<<"u524D", "u4EBA", "u7814", "u7A76">>),
      Word(<<"u73B0", "u6709", "u7814", "u7A76">>),
      Word(<<"u5927", "u91CF", "u7814", "u7A76">>),
      Word(<<"u5B66", "u8005", "u4EEC">>),
      Cat(<<Word(<<"u968F", "u7740">>), Star(AnyChar), Word(<<"u7684", "u53D1", "u5C55">>)>>),
      Word(<<"u65E5", "u76CA", "u589E", "u957F">>),
      Word(<<"u5DF2", "u6210", "u4E3A">>),
      Word(<<"u666E", "u904D", "u8BA4", "u4E3A">>),
      Word(<<"u901A", "u5E38", "u8BA4", "u4E3A">>)>>

\* definition: 定义为  被定义为  根据.*标准  按照.*定义  指标.*定义  协议  规范  标准规定  国际标准  国家标准  行业标准
DefinitionPatterns ==
    <<Word(<<"u5B9A", "u4E49", "u4E3A">>),
      Word(<<"u88AB", "u5B9A", "u4E49", "u4E3A">>),
      Cat(<<Word(<<"u6839", "u636E">>), Star(AnyChar), Word(<<"u6807", "u51C6">>)>>),
      Cat(<<Word(<<"u6309", "u7167">>), Star(AnyChar), Word(<<"u5B9A", "u4E49">>)>>),
      Cat(<<Word(<<"u6307", "u6807">>), Star(AnyChar), Word(<<"u5B9A", "u4E49">>)>>),
      Word(<<"u534F", "u8BAE">>), Word(<<"u89C4", "u8303">>),
      Word(<<"u6807", "u51C6", "u89C4", "u5B9A">>),
      Word(<<"u56FD", "u9645", "u6807", "u51C6">>),
      Word(<<"u56FD", "u5BB6", "u6807", "u51C6">>),
      Word(<<"u884C", "u4E1A", "u6807", "u51C6">>)>>

\* method: 采用.*方法  基于.*模型  使用.*算法  运用.*技术  借鉴.*框架  参考.*设计  引入.*机制  提出的.*方法  经典.*算法  传统.*方法
MethodPatterns ==
    <<Cat(<<Word(<<"u91C7", "u7528">>), Star(AnyChar), Word(<<"u65B9", "u6CD5">>)>>),
      Cat(<<Word(<<"u57FA", "u4E8E">>), Star(AnyChar), Word(<<"u6A21", "u578B">>)>>),
      Cat(<<Word(<<"u4F7F", "u7528">>), Star(AnyChar), Word(<<"u7B97", "u6CD5">>)>>),
      Cat(<<Word(<<"u8FD0", "u7528">>), Star(AnyChar), Word(<<"u6280", "u672F">>)>>),
      Cat(<<Word(<<"u501F", "u9274">>), Star(AnyChar), Word(<<"u6846", "u67B6">>)>>),
      Cat(<<Word(<<"u53C2", "u8003">>), Star(AnyChar), Word(<<"u8BBE", "u8BA1">>)>>),
      Cat(<<Word(<<"u5F15", "u5165">>), Star(AnyChar), Word(<<"u673A", "u5236">>)>>),
      Cat(<<Word(<<"u63D0", "u51FA", "u7684">>), Star(AnyChar), Word(<<"u65B9", "u6CD5">>)>>),
      Cat(<<Word(<<"u7ECF", "u5178">>), Star(AnyChar), Word(<<"u7B97", "u6CD5">>)>>),
      Cat(<<Word(<<"u4F20", "u7EDF">>), Star(AnyChar), Word(<<"u65B9", "u6CD5">>)>>)>>

\* comparison: 传统方法.*存在  现有方法.*不足  相比之下  优于  劣于  对比  比较  相较于  与.*相比  超过了  不如
ComparisonPatterns ==
    <<Cat(<<Word(<<"u4F20", "u7EDF", "u65B9", "u6CD5">>), Star(AnyChar), Word(<<"u5B58", "u5728">>)>>),
      Cat(<<Word(<<"u73B0", "u6709", "u65B9", "u6CD5">>), Star(AnyChar), Word(<<"u4E0D", "u8DB3">>)>>),
      Word(<<"u76F8", "u6BD4", "u4E4B", "u4E0B">>),
      Word(<<"u4F18", "u4E8E">>), Word(<<"u52A3", "u4E8E">>),
      Word(<<"u5BF9", "u6BD4">>), Word(<<"u6BD4", "u8F83">>),
      Word(<<"u76F8", "u8F83", "u4E8E">>),
      Cat(<<Lit("u4E0E"), Star(AnyChar), Word(<<"u76F8", "u6BD4">>)>>),
      Word(<<"u8D85", "u8FC7", "u4E86">>), Word(<<"u4E0D", "u5982">>)>>

\* statistic: 占.*比例  增长了  下降了  大规模  调查显示  统计表明  数据显示  据统计  \d+%.*的  约\d+  超过\d+  达到\d+
StatisticPatterns ==
    <<Cat(<<Lit("u5360"), Star(AnyChar), Word(<<"u6BD4", "u4F8B">>)>>),
      Word(<<"u589E", "u957F", "u4E86">>),
      Word(<<"u4E0B", "u964D", "u4E86">>),
      Word(<<"u5927", "u89C4", "u6A21">>),
      Word(<<"u8C03", "u67E5", "u663E", "u793A">>),
      Word(<<"u7EDF", "u8BA1", "u8868", "u660E">>),
      Word(<<"u6570", "u636E", "u663E", "u793A">>),
      Word(<<"u636E", "u7EDF", "u8BA1">>),
      Cat(<<Plus(Digit), Lit("%"), Star(AnyChar), Lit("u7684")>>),
      Cat(<<Lit("u7EA6"), Plus(Digit)>>),
      Cat(<<Word(<<"u8D85", "u8FC7">>), Plus(Digit)>>),
      Cat(<<Word(<<"u8FBE", "u5230">>), Plus(Digit)>>)>>

CITATION_PATTERNS ==
    <<[reason |-> "background", patterns |-> BackgroundPatterns],
      [reason |-> "definition", patterns |-> DefinitionPatterns],
      [reason |-> "method", patterns |-> MethodPatterns],
      [reason |-> "comparison", patterns |-> ComparisonPatterns],
      [reason |-> "statistic", patterns |-> StatisticPatterns]>>

\* 本文提出  本研究  我们提出  我们发现  本工作  本实验  本文设计  本文实现  我们的方法  我们的模型
OWN_WORK_PATTERNS ==
    <<Word(<<"u672C", "u6587", "u63D0", "u51FA">>),
      Word(<<"u672C", "u7814", "u7A76">>),
      Word(<<"u6211", "u4EEC", "u63D0", "u51FA">>),
      Word(<<"u6211", "u4EEC", "u53D1", "u73B0">>),
      Word(<<"u672C", "u5DE5", "u4F5C">>),
      Word(<<"u672C", "u5B9E", "u9A8C">>),
      Word(<<"u672C", "u6587", "u8BBE", "u8BA1">>),
      Word(<<"u672C", "u6587", "u5B9E", "u73B0">>),
      Word(<<"u6211", "u4EEC", "u7684", "u65B9", "u6CD5">>),
      Word(<<"u6211", "u4EEC", "u7684", "u6A21", "u578B">>)>>

\* 技术  方法  算法  模型  系统  网络  框架  机制  理论  分析
CHINESE_TECH_SUFFIXES ==
    <<<<"u6280", "u672F">>, <<"u65B9", "u6CD5">>, <<"u7B97", "u6CD5">>,
      <<"u6A21", "u578B">>, <<"u7CFB", "u7EDF">>, <<"u7F51", "u7EDC">>,
      <<"u6846", "u67B6">>, <<"u673A", "u5236">>, <<"u7406", "u8BBA">>,
      <<"u5206", "u6790">>>>

\* the query suffixes of generateQueries, per reason
suffixes ==
    [ background |->
        [cn |-> <<<<"u7EFC", "u8FF0">>,
                  <<"u7814", "u7A76", "u8FDB", "u5C55">>,
                  <<"u53D1", "u5C55", "u73B0", "u72B6">>>>,
         en |-> <<<<"s", "u", "r", "v", "e", "y">>,
                  <<"r", "e", "v", "i", "e", "w">>,
                  <<"o", "v", "e", "r", "v", "i", "e", "w">>>>],
      definition |->
        [cn |-> <<<<"u5B9A", "u4E49">>,
                  <<"u6807", "u51C6">>,
                  <<"u89C4", "u8303">>>>,
         en |-> <<<<"d", "e", "f", "i", "n", "i", "t", "i", "o", "n">>,
                  <<"s", "t", "a", "n", "d", "a", "r", "d">>,
                  <<"s", "p", "e", "c", "i", "f", "i", "c", "a", "t", "i", "o", "n">>>>],
      method |->
        [cn |-> <<<<"u65B9", "u6CD5">>,
                  <<"u7B97", "u6CD5">>,
                  <<"u6280", "u672F">>>>,
         en |-> <<<<"m", "e", "t", "h", "o", "d">>,
                  <<"a", "l", "g", "o", "r", "i", "t", "h", "m">>,
                  <<"t", "e", "c", "h", "n", "i", "q", "u", "e">>>>],
      comparison |->
        [cn |-> <<<<"u5BF9", "u6BD4">>,
                  <<"u6BD4", "u8F83", "u7814", "u7A76">>,
                  <<"u8BC4", "u4F30">>>>,
         en |-> <<<<"c", "o", "m", "p", "a", "r", "i", "s", "o", "n">>,
                  <<"b", "e", "n", "c", "h", "m", "a", "r", "k">>,
                  <<"e", "v", "a", "l", "u", "a", "t", "i", "o", "n">>>>],
      statistic |->
        [cn |-> <<<<"u7EDF", "u8BA1">>,
                  <<"u8C03", "u67E5">>,
                  <<"u6570", "u636E", "u5206", "u6790">>>>,
         en |-> <<<<"s", "t", "a", "t", "i", "s", "t", "i", "c", "s">>,
                  <<"s", "u", "r", "v", "e", "y", " ", "d", "a", "t", "a">>,
                  <<"a", "n", "a", "l", "y", "s", "i", "s">>>>] ]


TestAny(patterns, s) == \E k \in 1..Len(patterns) : Test(patterns[k], s)

isOwnWork(sentence) == TestAny(OWN_WORK_PATTERNS, sentence)

\* the reason of the last category with a matching pattern
RECURSIVE LastCategory(_, _)
LastCategory(entries, sentence) ==
    IF entries = <<>> THEN None
    ELSE IF TestAny(entries[Len(entries)].patterns, sentence)
         THEN entries[Len(entries)].reason
    ELSE LastCategory(SubSeq(entries, 1, Len(entries) - 1), sentence)

\* the reason of the first category with a matching pattern
RECURSIVE FirstCategory(_, _)
FirstCategory(entries, sentence) ==
    IF entries = <<>> THEN None
    ELSE IF TestAny(Head(entries).patterns, sentence) THEN Head(entries).reason
    ELSE FirstCategory(Tail(entries), sentence)

\* the categories alone, own work or not
needsCitationOfOwnWork(sentence) == FirstCategory(CITATION_PATTERNS, sentence)

needsCitation(sentence) ==
    IF isOwnWork(sentence) THEN None
    ELSE FirstCategory(CITATION_PATTERNS, sentence)

\* Array.prototype.slice(0, n)
Take(q, n) == SubSeq(q, 1, Min(Len(q), n))

\* [...new Set(terms)]
RECURSIVE Unique(_, _)
Unique(seen, q) ==
    IF q = <<>> THEN seen ELSE Unique(SetAdd(seen, Head(q)), Tail(q))

\* /[""]([^""]+)[""]/g
QuotedRe == Cat(<<Lit("\""), Plus(NotChr({"\""})), Lit("\"")>>)

\* /[A-Za-z][A-Za-z0-9]*(?:-[A-Za-z0-9]+)*/g
EnglishTermRe ==
    Cat(<<Chr(Letters), Star(Chr(Letters \cup Digits)),
          Star(Cat(<<Lit("-"), Plus(Chr(Letters \cup Digits))>>))>>)

\* /^(the|and|for|with|from|this|that|these|those|are|was|were|been|have|has|had)$/i
StopWordRe ==
    Cat(<<BeginOfInput,
          Alt(<<WordI(<<"t", "h", "e">>), WordI(<<"a", "n", "d">>),
                WordI(<<"f", "o", "r">>), WordI(<<"w", "i", "t", "h">>),
                WordI(<<"f", "r", "o", "m">>), WordI(<<"t", "h", "i", "s">>),
                WordI(<<"t", "h", "a", "t">>), WordI(<<"t", "h", "e", "s", "e">>),
                WordI(<<"t", "h", "o", "s", "e">>), WordI(<<"a", "r", "e">>),
                WordI(<<"w", "a", "s">>), WordI(<<"w", "e", "r", "e">>),
                WordI(<<"b", "e", "e", "n">>), WordI(<<"h", "a", "v", "e">>),
                WordI(<<"h", "a", "s">>), WordI(<<"h", "a", "d">>)>>),
          EndOfInput>>)

\* [一-龥]{2,6}(?:技术|方法|...)
ChineseTermRe ==
    Cat(<<Rep(Chr(CJK), 2, 6),
          Alt([k \in 1..Len(CHINESE_TECH_SUFFIXES) |-> Word(CHINESE_TECH_SUFFIXES[k])])>>)

extractKeyTerms(sentence) ==
    LET quotedMatches  == MatchAll(QuotedRe, sentence)
        quoted         == [k \in 1..Len(quotedMatches) |->
                              ReplaceAll(Lit("\""), quotedMatches[k], <<>>)]
        englishMatches == MatchAll(EnglishTermRe, sentence)
        english        == SelectSeq(englishMatches,
                              LAMBDA m : Len(m) >= 3 /\ ~Test(StopWordRe, m))
        chineseMatches == MatchAll(ChineseTermRe, sentence)
    IN  Take(Unique(<<>>, quoted \o english \o chineseMatches), 4)

generateQueries(sentence, reason) ==
    LET keyTerms       == extractKeyTerms(sentence)
        reasonSuffixes == suffixes[reason]
        cnTerms        == Take(keyTerms, 2)
        cnQueries      == [k \in 1..Len(cnTerms) |->
                              cnTerms[k] \o <<" ">> \o Take(reasonSuffixes.cn, 1)[1]]
        englishTerms   == Take(SelectSeq(keyTerms,
                                   LAMBDA t : Test(Chr(Letters), t)), 2)
        enQueries      == [k \in 1..Len(englishTerms) |->
                              englishTerms[k] \o <<" ">> \o Take(reasonSuffixes.en, 1)[1]]
        queries        == cnQueries \o enQueries
        fallbackTerm   == ReplaceAll(Chr({"uFF0C", "u3002", "uFF1F", "uFF01"}),
                                     Take(sentence, 20), <<>>)
    IN  IF Len(queries) = 0
        THEN <<fallbackTerm \o <<" ">> \o reasonSuffixes.cn[1]>>
        ELSE Take(queries, 4)

RULES_VERSION == "1.0.0"

\* sentence.text.slice(0, 100) and items.slice(0, 20)
DisplayLength == 100
ItemLimit == 20

\* the item pushed for a sentence with a reason
Suggestion(sentence, reason) ==
    [sentenceIndex |-> sentence.index,
     sentenceText  |-> Take(sentence.text, DisplayLength)
                         \o (IF Len(sentence.text) > DisplayLength
                             THEN <<".", ".", ".">> ELSE <<>>),
     reason        |-> reason,
     queries       |-> generateQueries(sentence.text, reason)]

RECURSIVE SuggestionLoop(_)
SuggestionLoop(sents) ==
    IF sents = <<>> THEN <<>>
    ELSE LET reason == needsCitation(Head(sents).text)
         IN  (IF reason # None THEN <<Suggestion(Head(sents), reason)>> ELSE <<>>)
               \o SuggestionLoop(Tail(sents))

\* every flagged sentence
generateCitationSuggestionsUncapped(dText) ==
    [rulesVersion |-> RULES_VERSION,
     items        |-> SuggestionLoop(splitSentencesCN(dText))]

generateCitationSuggestions(dText) ==
    [rulesVersion |-> RULES_VERSION,
     items        |-> Take(SuggestionLoop(splitSentencesCN(dText)), ItemLimit)]

-----------------------------------------------------------------------------
(* The drafts given to the citation detector: up to MaxPieces phrases      *)
(* written one after the other, the two documented sentences, and a draft  *)
(* with sentences around the display length and more flagged sentences     *)
(* than the detector returns.                                              *)

MaxPieces == 3

\* 本文提出  近年来  定义为  优于  深度学习方法  CNN  。
Phrases ==
    {<<"u672C", "u6587", "u63D0", "u51FA">>, <<"u8FD1", "u5E74", "u6765">>,
     <<"u5B9A", "u4E49", "u4E3A">>, <<"u4F18", "u4E8E">>,
     <<"u6DF1", "u5EA6", "u5B66", "u4E60", "u65B9", "u6CD5">>,
     <<"C", "N", "N">>, <<"u3002">>}

RECURSIVE PhraseTexts(_)
PhraseTexts(n) ==
    IF n = 0 THEN {<<>>}
    ELSE PhraseTexts(n - 1) \cup {t \o f : t \in PhraseTexts(n - 1), f \in Phrases}

\* "本文提出了一种新方法。"
OwnWorkSentence ==
    <<"u672C", "u6587", "u63D0", "u51FA", "u4E86", "u4E00", "u79CD", "u65B0", "u65B9", "u6CD5", "u3002">>

\* "近年来，该算法已被广泛应用。"
BackgroundSentence ==
    <<"u8FD1", "u5E74", "u6765", "uFF0C", "u8BE5", "u7B97", "u6CD5",
      "u5DF2", "u88AB", "u5E7F", "u6CDB", "u5E94", "u7528", "u3002">>

RECURSIVE Repeat(_, _)
Repeat(s, n) == IF n = 0 THEN <<>> ELSE s \o Repeat(s, n - 1)

\* "优于。" and "aa。"
Flagged   == <<"u4F18", "u4E8E", "u3002">>
Unflagged == <<"a", "a", "u3002">>

\* 22 flagged sentences, with unflagged ones before and among them
ManyFlagged ==
    Unflagged \o Repeat(Flagged, 11) \o Unflagged \o Repeat(Flagged, 11)

\* "优于" followed by n full-width commas and a full stop: n + 3 characters
Padded(n) == <<"u4F18", "u4E8E">> \o Repeat(<<"uFF0C">>, n) \o <<"u3002">>

\* sentences of 99, 100, 101 and 102 characters
LongSentences == Padded(96) \o Padded(97) \o Padded(98) \o Padded(99)

\* 26 flagged sentences
CappedDraft == LongSentences \o ManyFlagged

CitationTexts ==
    PhraseTexts(MaxPieces)
      \cup {OwnWorkSentence, BackgroundSentence, CappedDraft}

InitCitation ==
    /\ pc = "start"
    /\ draftText \in CitationTexts
    /\ suggestions = None
    /\ standardText = None /\ guardrails = None
    /\ text = None /\ normalized = None /\ renormalized = None /\ sentences = None
    /\ sample = None /\ draft = None /\ standard = None
    /\ weights = None /\ score = None /\ mirror = None
    /\ metrics = None /\ heap = None
    /\ NoClient /\ NoWorkflow /\ NoHook

SuggestCall ==
    /\ pc = "start"
    /\ suggestions' = generateCitationSuggestions(draftText)
    /\ pc' = "suggested"
    /\ UNCHANGED <<serviceVars, fidelityVars, textVars, mirrorVars, metricsVars, heap>>

NextCitation == SuggestCall

SpecCitation == InitCitation /\ [][NextCitation]_vars

-----------------------------------------------------------------------------
(* text.ts: the body text, and the style metrics of calculateMetrics       *)

isMarkdownHeading(line) == Test(HeadingRe, Trim(line))

\* Array.prototype.join
RECURSIVE Join(_, _)
Join(parts, sep) ==
    IF parts = <<>> THEN <<>>
    ELSE IF Len(parts) = 1 THEN Head(parts)
    ELSE Head(parts) \o sep \o Join(Tail(parts), sep)

getBodyText(t) ==
    LET lines == Split(Lit("\n"), normalizeText(t))
    IN  Trim(Join(SelectSeq(lines, LAMBDA line : ~isMarkdownHeading(line)),
                  <<"\n">>))

\* CONNECTOR_WORDS
\* causal: 因此 所以 由于 因为 故 从而 以致 导致 因而 于是
CausalWords ==
    <<<<"u56E0", "u6B64">>, <<"u6240", "u4EE5">>, <<"u7531", "u4E8E">>,
      <<"u56E0", "u4E3A">>, <<"u6545">>, <<"u4ECE", "u800C">>,
      <<"u4EE5", "u81F4">>, <<"u5BFC", "u81F4">>, <<"u56E0", "u800C">>,
      <<"u4E8E", "u662F">>>>

\* adversative: 然而 但是 不过 尽管 虽然 却 但 可是 反而 相反
AdversativeWords ==
    <<<<"u7136", "u800C">>, <<"u4F46", "u662F">>, <<"u4E0D", "u8FC7">>,
      <<"u5C3D", "u7BA1">>, <<"u867D", "u7136">>, <<"u5374">>, <<"u4F46">>,
      <<"u53EF", "u662F">>, <<"u53CD", "u800C">>, <<"u76F8", "u53CD">>>>

\* additive: 此外 另外 同时 并且 而且 以及 再者 还 也 又
AdditiveWords ==
    <<<<"u6B64", "u5916">>, <<"u53E6", "u5916">>, <<"u540C", "u65F6">>,
      <<"u5E76", "u4E14">>, <<"u800C", "u4E14">>, <<"u4EE5", "u53CA">>,
      <<"u518D", "u8005">>, <<"u8FD8">>, <<"u4E5F">>, <<"u53C8">>>>

\* emphatic: 尤其 特别 值得注意的是 需要指出的是 显然 明显 重要的是 关键是
EmphaticWords ==
    <<<<"u5C24", "u5176">>, <<"u7279", "u522B">>,
      <<"u503C", "u5F97", "u6CE8", "u610F", "u7684", "u662F">>,
      <<"u9700", "u8981", "u6307", "u51FA", "u7684", "u662F">>,
      <<"u663E", "u7136">>, <<"u660E", "u663E">>,
      <<"u91CD", "u8981", "u7684", "u662F">>,
      <<"u5173", "u952E", "u662F">>>>

CONNECTOR_WORDS ==
    [causal |-> CausalWords, adversative |-> AdversativeWords,
     additive |-> AdditiveWords, emphatic |-> EmphaticWords]

\* 本文首先  本文其次  本文最后  本文提出  综上所述  总而言之  总的来说  众所周知  不言而喻  毋庸置疑
\* 近年来  随着.*的发展  受到广泛关注  具有重要意义  具有重要的理论和实践价值  研究表明  结果表明  实验表明  进行了.*研究  开展了.*工作
TEMPLATE_PHRASES ==
    <<Word(<<"u672C", "u6587", "u9996", "u5148">>),
      Word(<<"u672C", "u6587", "u5176", "u6B21">>),
      Word(<<"u672C", "u6587", "u6700", "u540E">>),
      Word(<<"u672C", "u6587", "u63D0", "u51FA">>),
      Word(<<"u7EFC", "u4E0A", "u6240", "u8FF0">>),
      Word(<<"u603B", "u800C", "u8A00", "u4E4B">>),
      Word(<<"u603B", "u7684", "u6765", "u8BF4">>),
      Word(<<"u4F17", "u6240", "u5468", "u77E5">>),
      Word(<<"u4E0D", "u8A00", "u800C", "u55BB">>),
      Word(<<"u6BCB", "u5EB8", "u7F6E", "u7591">>),
      Word(<<"u8FD1", "u5E74", "u6765">>),
      Cat(<<Word(<<"u968F", "u7740">>), Star(AnyChar), Word(<<"u7684", "u53D1", "u5C55">>)>>),
      Word(<<"u53D7", "u5230", "u5E7F", "u6CDB", "u5173", "u6CE8">>),
      Word(<<"u5177", "u6709", "u91CD", "u8981", "u610F", "u4E49">>),
      Word(<<"u5177", "u6709", "u91CD", "u8981", "u7684", "u7406", "u8BBA", "u548C", "u5B9E", "u8DF5", "u4EF7", "u503C">>),
      Word(<<"u7814", "u7A76", "u8868", "u660E">>),
      Word(<<"u7ED3", "u679C", "u8868", "u660E">>),
      Word(<<"u5B9E", "u9A8C", "u8868", "u660E">>),
      Cat(<<Word(<<"u8FDB", "u884C", "u4E86">>), Star(AnyChar), Word(<<"u7814", "u7A76">>)>>),
      Cat(<<Word(<<"u5F00", "u5C55", "u4E86">>), Star(AnyChar), Word(<<"u5DE5", "u4F5C">>)>>)>>

\* 0 / 0
NaN == [n |-> 0, d |-> 0]

\* Math.round(x * 10) / 10 and Math.round(x * 100) / 100; rounding NaN
\* gives NaN
RoundTo1(x) == IF x = NaN THEN NaN ELSE Round1(x)
RoundTo2(x) == IF x = NaN THEN NaN ELSE Frac(Round(RatMul(x, Num(100))), 100)

RECURSIVE Sum(_)
Sum(arr) == IF arr = <<>> THEN 0 ELSE Head(arr) + Sum(Tail(arr))

\* [...arr].sort((a, b) => a - b)
RECURSIVE Sorted(_)
Sorted(arr) ==
    IF arr = <<>> THEN <<>>
    ELSE LET rest == Sorted(Tail(arr))
         IN  SelectSeq(rest, LAMBDA x : x <= Head(arr)) \o <<Head(arr)>>
               \o SelectSeq(rest, LAMBDA x : x > Head(arr))

\* the lower of the two ranks, without interpolation
percentileLowerRank(sortedArr, p) ==
    IF Len(sortedArr) = 0 THEN Num(0)
    ELSE Num(sortedArr[((p * (Len(sortedArr) - 1)) \div 100) + 1])

\* linear interpolation between the two ranks around p / 100 * (length - 1)
percentile(sortedArr, p) ==
    IF Len(sortedArr) = 0 THEN Num(0)
    ELSE LET index == Frac(p * (Len(sortedArr) - 1), 100)
             lower == index.n \div index.d
             upper == IF index.d = 1 THEN lower ELSE lower + 1
         IN  IF lower = upper THEN Num(sortedArr[lower + 1])
             ELSE RatAdd(Num(sortedArr[lower + 1]),
                         RatMul(Num(sortedArr[upper + 1] - sortedArr[lower + 1]),
                                RatSub(index, Num(lower))))

\* the sum divided by the length, an empty array included
meanOfAny(arr) ==
    IF Len(arr) = 0 THEN NaN ELSE Frac(Sum(arr), Len(arr))

mean(arr) ==
    IF Len(arr) = 0 THEN Num(0) ELSE Frac(Sum(arr), Len(arr))

\* whether the word occurs at all, as a count
countPatternOnce(t, word) == IF Includes(t, word) THEN 1 ELSE 0

\* countPattern with a string: occurrences that do not overlap, from the left
RECURSIVE CountFrom(_, _, _)
CountFrom(t, word, pos) ==
    IF pos + Len(word) > Len(t) THEN 0
    ELSE IF Slice(t, pos, pos + Len(word)) = word
         THEN 1 + CountFrom(t, word, pos + Len(word))
    ELSE CountFrom(t, word, pos + 1)

countPattern(t, word) == CountFrom(t, word, 0)

\* countPattern with a /g expression
countPatternRegExp(t, pattern) == Len(MatchAll(pattern, t))

RECURSIVE CountWords(_, _)
CountWords(t, words) ==
    IF words = <<>> THEN 0
    ELSE countPattern(t, Head(words)) + CountWords(t, Tail(words))

RECURSIVE CountPhrases(_, _)
CountPhrases(t, phrases) ==
    IF phrases = <<>> THEN 0
    ELSE countPatternRegExp(t, Head(phrases)) + CountPhrases(t, Tail(phrases))

calculateMetrics(t) ==
    LET bodyText        == getBodyText(t)
        sents           == splitSentencesCN(t)
        textLength      == Len(bodyText)
        sentenceLengths == [k \in 1..Len(sents) |-> Len(sents[k].text)]
        sortedLengths   == Sorted(sentenceLengths)
        longSentences   == SelectSeq(sentenceLengths, LAMBDA len : len > 50)
        commaCount      == countPattern(bodyText, <<"uFF0C">>)
                             + countPattern(bodyText, <<",">>)
        semicolonCount  == countPattern(bodyText, <<"uFF1B">>)
                             + countPattern(bodyText, <<";">>)
        parenthesisCount == countPattern(bodyText, <<"uFF08">>)
                              + countPattern(bodyText, <<"uFF09">>)
                              + countPattern(bodyText, <<"(">>)
                              + countPattern(bodyText, <<")">>)
        perThousand     == IF textLength > 0 THEN Frac(1000, textLength) ELSE Num(0)
        causal          == CountWords(bodyText, CONNECTOR_WORDS.causal)
        adversative     == CountWords(bodyText, CONNECTOR_WORDS.adversative)
        additive        == CountWords(bodyText, CONNECTOR_WORDS.additive)
        emphatic        == CountWords(bodyText, CONNECTOR_WORDS.emphatic)
        templateCount   == CountPhrases(bodyText, TEMPLATE_PHRASES)
    IN  [sentenceLength |->
            [mean       |-> RoundTo1(mean(sentenceLengths)),
             p50        |-> RoundTo1(percentile(sortedLengths, 50)),
             p90        |-> RoundTo1(percentile(sortedLengths, 90)),
             longRate50 |-> IF Len(sentenceLengths) > 0
                            THEN RoundTo1(RatMul(Frac(Len(longSentences),
                                                      Len(sentenceLengths)),
                                                 Num(100)))
                            ELSE Num(0)],
         punctuationDensity |->
            [comma       |-> RoundTo1(RatMul(Num(commaCount), perThousand)),
             semicolon   |-> RoundTo1(RatMul(Num(semicolonCount), perThousand)),
             parenthesis |-> RoundTo1(RatMul(Num(parenthesisCount), perThousand))],
         connectorCounts |->
            [causal |-> causal, adversative |-> adversative,
             additive |-> additive, emphatic |-> emphatic,
             total |-> causal + adversative + additive + emphatic],
         templateCounts |->
            [count            |-> templateCount,
             perThousandChars |-> IF textLength > 0
                                  THEN RoundTo2(Frac(templateCount * 1000, textLength))
                                  ELSE Num(0)],
         textLengthChars |-> textLength,
         sentenceCount   |-> Len(sents)]

-----------------------------------------------------------------------------
(* The texts given to calculateMetrics: every text of up to MaxTextLen     *)
(* characters over a line feed, a space, a letter, # and the full stop,    *)
(* and a few longer texts.                                                 *)

MetricAlphabet == {"\n", " ", "a", "#", "u3002"}

\* "a\n\n# a\n\na": a heading line between two blank lines
SandwichedHeading == <<"a", "\n", "\n", "#", " ", "a", "\n", "\n", "a">>

\* n letters and a full stop: a sentence of n + 1 characters
LetterSentence(n) == Repeat(<<"a">>, n) \o <<"u3002">>

\* sentences of 3, 51, 2 and 50 characters
UnevenSentences ==
    LetterSentence(2) \o LetterSentence(50) \o LetterSentence(1)
      \o LetterSentence(49)

\* 但是  因此  也  尤其  "# "  line feed  。
ConnectorPieces ==
    {<<"u4F46", "u662F">>, <<"u56E0", "u6B64">>, <<"u4E5F">>,
     <<"u5C24", "u5176">>, <<"#", " ">>, <<"\n">>, <<"u3002">>}

RECURSIVE ConnectorTexts(_)
ConnectorTexts(n) ==
    IF n = 0 THEN {<<>>}
    ELSE ConnectorTexts(n - 1)
           \cup {t \o f : t \in ConnectorTexts(n - 1), f \in ConnectorPieces}

MetricSamples ==
    {SandwichedHeading, UnevenSentences} \cup ConnectorTexts(MaxPieces)

MetricTexts == SeqsUpTo(MetricAlphabet, MaxTextLen) \cup MetricSamples

InitMetrics ==
    /\ pc = "start"
    /\ text \in MetricTexts
    /\ metrics = None
    /\ normalized = None /\ renormalized = None /\ sentences = None
    /\ sample = None /\ draft = None /\ standard = None
    /\ weights = None /\ score = None /\ mirror = None
    /\ draftText = None /\ standardText = None /\ guardrails = None
    /\ suggestions = None /\ heap = None
    /\ NoClient /\ NoWorkflow /\ NoHook

MetricsCall ==
    /\ pc = "start"
    /\ metrics' = calculateMetrics(text)
    /\ pc' = "measured"
    /\ UNCHANGED <<serviceVars, textVars, mirrorVars, fidelityVars, citationVars, heap>>

NextMetrics == MetricsCall

SpecMetrics == InitMetrics /\ [][NextMetrics]_vars

-----------------------------------------------------------------------------

\* C1: normalizeText is idempotent: normalizing a normalized text, whatever
\* mix of \r\n, lone \r, runs of newlines, spaces and tabs the input held,
\* returns it unchanged.
NormalizeIdempotent ==
    pc \in {"renormalized", "split"} => renormalized = normalized

\* a text with a carriage return that normalization changed and did not empty
NormalizeIdempotentWitness ==
    /\ pc = "renormalized"
    /\ \E k \in 1..Len(text) : text[k] = "\r"
    /\ normalized # text
    /\ Len(normalized) >= 3
    /\ renormalized = normalized

RECURSIVE OccurInOrder(_, _, _)
OccurInOrder(sents, s, from) ==
    IF sents = <<>> THEN TRUE
    ELSE LET t == Head(sents).text
         IN  \E i \in from..(Len(s) - Len(t)) :
                /\ Slice(s, i, i + Len(t)) = t
                /\ OccurInOrder(Tail(sents), s, i + Len(t))

\* C2: the sentences splitSentencesCN returns carry the indices 0, 1, ...,
\* n-1 without gaps, in the order they occur in the text, and each sentence
\* text is trimmed and at least 2 characters long.
SentenceIndicesContiguous ==
    pc = "split" =>
        /\ \A k \in 1..Len(sentences) :
              /\ sentences[k].index = k - 1
              /\ Trim(sentences[k].text) = sentences[k].text
              /\ Len(sentences[k].text) >= 2
        /\ OccurInOrder(sentences, normalizeText(text), 0)

\* a sentence is returned after an earlier part was dropped as too short
SentenceIndicesContiguousWitness ==
    /\ pc = "split"
    /\ Len(sentences) >= 1
    /\ LET parts == SentenceParts(text)
       IN  Len(parts) >= 2 /\ Len(Trim(parts[1])) = 1


InUnit(x) == RatLe(Num(0), x) /\ RatLe(x, Num(1))

InPercent(x) == RatLe(Num(0), x) /\ RatLe(x, Num(100))

\* C3: calculateMirrorScore(x, x) is exactly 100.0 for every well-formed
\* profile x, also when its connector total is 0.
SelfScoreIs100 ==
    (pc = "scored" /\ draft = sample) => score = Num(100)

\* a profile scored against itself that is not all zeros and has no connector
SelfScoreIs100Witness ==
    /\ pc = "scored"
    /\ draft = sample
    /\ sample.connectorCounts.total = 0
    /\ sample.sentenceLength.p90 # sample.sentenceLength.p50
    /\ sample.punctuationDensity.comma # Num(0)
    /\ score = Num(100)

\* C4: with the default weights the score of two well-formed profiles lies
\* in [0, 100]; each of the four sub-distances and the weighted distance lie
\* in [0, 1].
ScoreWithinRange ==
    pc = "scored" =>
        /\ InPercent(score)
        /\ InUnit(sentenceLengthDistance(draft.sentenceLength, sample.sentenceLength))
        /\ InUnit(connectorDistance(draft.connectorCounts, sample.connectorCounts))
        /\ InUnit(punctuationDistance(draft.punctuationDensity,
                                      sample.punctuationDensity))
        /\ InUnit(templateDistance(draft.templateCounts, sample.templateCounts))
        /\ InUnit(weightedDistance(draft, sample, DEFAULT_WEIGHTS))

\* two profiles as far apart as the score can tell: every field differs by
\* more than its expected maximum, and the score is 0
ScoreWithinRangeWitness ==
    /\ pc = "scored"
    /\ score = Num(0)
    /\ RatLe(Num(SENTENCE_LENGTH_MAX_EXPECTED.mean),
             RatAbs(RatSub(draft.sentenceLength.mean, sample.sentenceLength.mean)))
    /\ draft.connectorCounts.causal > 0
    /\ sample.connectorCounts.causal = 0
    /\ sample.connectorCounts.total > 0

\* C5: generateMirrorScore returns the score of the draft against the
\* sample, the score of the rewritten text against the sample, and as
\* improvement their difference rounded to one decimal, which may be negative.
GenerateMatchesScores ==
    pc = "generated" =>
        /\ mirror.draftToSample = calculateMirrorScore(draft, sample, weights)
        /\ mirror.standardToSample = calculateMirrorScore(standard, sample, weights)
        /\ Round(RatMul(mirror.improvement, Num(10)))
             = Round(RatMul(RatSub(mirror.standardToSample, mirror.draftToSample),
                            Num(10)))
        /\ RatMul(mirror.improvement, Num(10)).d = 1

\* the rewritten text scores worse than the draft: a negative improvement
GenerateMatchesScoresWitness ==
    /\ pc = "generated"
    /\ mirror.improvement.n < 0
    /\ mirror.draftToSample # mirror.standardToSample
    /\ draft # sample /\ standard # sample

WeightSum(w) ==
    RatAdd(RatAdd(RatAdd(w.sentence, w.connectors), w.punctuation), w.templates)

\* C6: every MirrorScore that generateMirrorScore produces has both scores
\* in [0, 100] and weights that sum to 1.0, whatever weights the caller
\* passes.
MirrorScoreInvariant ==
    pc = "generated" =>
        /\ InPercent(mirror.draftToSample)
        /\ InPercent(mirror.standardToSample)
        /\ WeightSum(mirror.weights) = Num(1)


\* the tokens of a text as a set: every match of every pattern, normalized
NumberTokens(t) ==
    {NormalizeNumber(m) : m \in Range(AllMatches(NumberPatterns, t))}

AcronymTokens(t) ==
    {m \in Range(AllMatches(AcronymPatterns, t)) :
        Len(m) >= 2 /\ ~Test(CommonWordRe, m)}

\* the token sets of the texts of the model, computed once
GuardrailTexts ==
    FragmentTexts \cup TokenTexts
        \cup {ScenarioDraft, ScenarioStandard, LossyDraft, LossyStandard}
NumberTokensOf == [t \in GuardrailTexts |-> NumberTokens(t)]
AcronymTokensOf == [t \in GuardrailTexts |-> AcronymTokens(t)]

\* C7: calculateFidelityGuardrails(t, t) reports both retention rates as
\* 100 and no alert; so does every call in which each number and acronym
\* token of the draft is also a token of the rewritten text.
IdenticalTextsFullyRetained ==
    (/\ pc = "checked"
     /\ \/ draftText = standardText
        \/ /\ NumberTokensOf[draftText] \subseteq NumberTokensOf[standardText]
           /\ AcronymTokensOf[draftText] \subseteq AcronymTokensOf[standardText])
    => /\ guardrails.numberRetentionRate = Num(100)
       /\ guardrails.acronymRetentionRate = Num(100)
       /\ guardrails.alerts = <<>>

\* a text with numbers and acronyms compared with itself
IdenticalTextsFullyRetainedWitness ==
    /\ pc = "checked"
    /\ draftText = standardText
    /\ NumberTokensOf[draftText] # {}
    /\ AcronymTokensOf[draftText] # {}
    /\ guardrails.alerts = <<>>

ExpectedRate(original, rewritten) ==
    IF original = {} THEN Num(100)
    ELSE Round1(Frac(100 * Cardinality(original \cap rewritten),
                     Cardinality(original)))

\* C8: a retention rate is 100 * |original /\ rewritten| / |original| rounded
\* to one decimal, and 100 when the original set is empty; it lies in
\* [0, 100], and a token that occurs several times counts once.
RetentionRateFormula ==
    pc = "checked" =>
        /\ guardrails.numberRetentionRate
             = ExpectedRate(NumberTokensOf[draftText], NumberTokensOf[standardText])
        /\ guardrails.acronymRetentionRate
             = ExpectedRate(AcronymTokensOf[draftText], AcronymTokensOf[standardText])
        /\ InPercent(guardrails.numberRetentionRate)
        /\ InPercent(guardrails.acronymRetentionRate)

\* a third of the numbers retained (33.3), a number matched more than once
\* in the draft, and no acronym to lose
RetentionRateFormulaWitness ==
    /\ pc = "checked"
    /\ guardrails.numberRetentionRate = Frac(333, 10)
    /\ Len(AllMatches(NumberPatterns, draftText))
         > Cardinality(NumberTokensOf[draftText])
    /\ AcronymTokensOf[draftText] = {}
    /\ guardrails.acronymRetentionRate = Num(100)

HasAlert(type) ==
    \E k \in 1..Len(guardrails.alerts) : guardrails.alerts[k].type = type

InScenario ==
    pc = "checked" /\ draftText = ScenarioDraft /\ standardText = ScenarioStandard

\* C9: in the scenario "准确率达到95.5%，使用了ResNet-50模型。" rewritten as
\* "准确率达到95.5%。", extractNumbers(draft) holds "95.5%", the number
\* retention rate is 100 and no number_loss alert is emitted.
ScenarioNumbersRetained ==
    InScenario =>
        /\ <<"9", "5", ".", "5", "%">> \in Range(extractNumbers(draftText))
        /\ guardrails.numberRetentionRate = Num(100)
        /\ ~HasAlert("number_loss")

ResNet50 == <<"R", "e", "s", "N", "e", "t", "-", "5", "0">>

\* C10: in the same scenario extractAcronyms(draft) holds "ResNet-50", the
\* acronym retention rate is 0, and exactly one acronym_change alert is
\* emitted, whose detail cites "ResNet-50".
ScenarioAcronymAlert ==
    InScenario =>
        /\ ResNet50 \in Range(extractAcronyms(draftText))
        /\ guardrails.acronymRetentionRate = Num(0)
        /\ Cardinality({k \in 1..Len(guardrails.alerts) :
                            guardrails.alerts[k].type = "acronym_change"}) = 1
        /\ \A k \in 1..Len(guardrails.alerts) :
              guardrails.alerts[k].type = "acronym_change"
                 => Includes(guardrails.alerts[k].detail, ResNet50)

\* the tokens in extraction order and the sentences of the texts of the
\* model, computed once
NumbersOf   == [t \in GuardrailTexts |-> extractNumbers(t)]
AcronymsOf  == [t \in GuardrailTexts |-> extractAcronyms(t)]
SentencesOf == [t \in GuardrailTexts |-> splitSentencesCN(t)]

\* the tokens of the draft that the rewritten text lacks, in extraction order
MissingNumbers ==
    SelectSeq(NumbersOf[draftText],
              LAMBDA n : n \notin NumberTokensOf[standardText])

MissingAcronyms ==
    SelectSeq(AcronymsOf[draftText],
              LAMBDA a : a \notin AcronymTokensOf[standardText])

\* the smallest index of a sentence of the draft that contains the token
SmallestIndexContaining(token) ==
    LET sents == SentencesOf[draftText]
        found == {sents[k].index : k \in {j \in 1..Len(sents) :
                                            Includes(sents[j].text, token)}}
    IN  IF found = {} THEN -1
        ELSE CHOOSE i \in found : \A j \in found : i <= j

\* C11: the alerts are min(5, missing numbers) alerts of type number_loss
\* followed by min(5, missing acronyms) alerts of type acronym_change (at
\* most 10, none of type unit_loss); the detail of an alert contains its
\* missing token, and its sentenceIndex is the smallest index of a sentence
\* of splitSentencesCN(draft) that contains the token, or -1 when none does.
AlertsCappedAndLocated ==
    pc = "checked" =>
        LET alerts == guardrails.alerts
            n == Min(5, Len(MissingNumbers))
            m == Min(5, Len(MissingAcronyms))
        IN  /\ Len(alerts) = n + m
            /\ Len(alerts) <= 10
            /\ ~HasAlert("unit_loss")
            /\ \A k \in 1..n :
                  /\ alerts[k].type = "number_loss"
                  /\ Includes(alerts[k].detail, MissingNumbers[k])
                  /\ alerts[k].sentenceIndex
                       = SmallestIndexContaining(MissingNumbers[k])
            /\ \A k \in 1..m :
                  /\ alerts[n + k].type = "acronym_change"
                  /\ Includes(alerts[n + k].detail, MissingAcronyms[k])
                  /\ alerts[n + k].sentenceIndex
                       = SmallestIndexContaining(MissingAcronyms[k])

\* more than five numbers and more than five acronyms are missing, ten
\* alerts are emitted, one for a token that no sentence holds verbatim
\* ("1e5", written "1E5") and one for a token of a later sentence
AlertsCappedAndLocatedWitness ==
    /\ pc = "checked"
    /\ Len(MissingNumbers) > 5
    /\ Len(MissingAcronyms) > 5
    /\ Len(guardrails.alerts) = 10
    /\ \E k \in 1..10 : guardrails.alerts[k].sentenceIndex = -1
    /\ \E k \in 1..10 : guardrails.alerts[k].sentenceIndex > 5

\* the sentences of the draft, and the categories a sentence matches
DraftSentences == splitSentencesCN(draftText)

ItemsOf(sentence) ==
    {k \in 1..Len(suggestions.items) :
        suggestions.items[k].sentenceIndex = sentence.index}

MatchingCategories(sentence) ==
    {k \in 1..Len(CITATION_PATTERNS) :
        TestAny(CITATION_PATTERNS[k].patterns, sentence.text)}

\* C12: a sentence that matches an own-work pattern never appears in the
\* items of generateCitationSuggestions, even when it also matches citation
\* patterns; "本文提出了一种新方法。" yields no suggestion.
OwnWorkNeverSuggested ==
    pc = "suggested" =>
        /\ \A j \in 1..Len(DraftSentences) :
              isOwnWork(DraftSentences[j].text) => ItemsOf(DraftSentences[j]) = {}
        /\ draftText = OwnWorkSentence => suggestions.items = <<>>

\* an own-work sentence that matches a citation pattern and is not an item
OwnWorkNeverSuggestedWitness ==
    /\ pc = "suggested"
    /\ \E j \in 1..Len(DraftSentences) :
          /\ isOwnWork(DraftSentences[j].text)
          /\ MatchingCategories(DraftSentences[j]) # {}
          /\ ItemsOf(DraftSentences[j]) = {}

\* the 20 items are not exhausted by the sentences before this one
NotCapped == pc = "suggested" /\ Len(suggestions.items) < ItemLimit

\* C13: for a sentence that matches no own-work pattern the reason is that
\* of the earliest category, in the order background, definition, method,
\* comparison, statistic, with a matching pattern; a sentence yields at most
\* one item, with one reason, and none when no category matches;
\* "近年来，该算法已被广泛应用。" is classified as background.
ReasonIsFirstCategory ==
    pc = "suggested" =>
        /\ <<"background", "definition", "method", "comparison", "statistic">>
             = [k \in 1..Len(CITATION_PATTERNS) |-> CITATION_PATTERNS[k].reason]
        /\ \A j \in 1..Len(DraftSentences) :
              LET sentence == DraftSentences[j]
                  matching == MatchingCategories(sentence)
              IN  /\ Cardinality(ItemsOf(sentence)) <= 1
                  /\ matching = {} => ItemsOf(sentence) = {}
                  /\ (NotCapped /\ ~isOwnWork(sentence.text) /\ matching # {})
                        => Cardinality(ItemsOf(sentence)) = 1
                  /\ \A k \in ItemsOf(sentence) :
                        /\ ~isOwnWork(sentence.text)
                        /\ matching # {}
                        /\ suggestions.items[k].reason
                             = CITATION_PATTERNS[CHOOSE c \in matching :
                                   \A d \in matching : c <= d].reason
        /\ draftText = BackgroundSentence
              => /\ Len(suggestions.items) = 1
                 /\ suggestions.items[1].reason = "background"

\* a sentence that matches a background and a definition pattern, the
\* definition phrase written first, is classified as background
ReasonIsFirstCategoryWitness ==
    /\ pc = "suggested"
    /\ Len(DraftSentences) = 1
    /\ MatchingCategories(DraftSentences[1]) = {1, 2}
    /\ Head(DraftSentences[1].text) = "u5B9A"
    /\ Len(suggestions.items) = 1
    /\ suggestions.items[1].reason = "background"

\* the sentences of the draft that need a citation, in order
FlaggedSentences ==
    SelectSeq(DraftSentences, LAMBDA sentence : needsCitation(sentence.text) # None)

\* C14: at most 20 items, the first 20 flagged sentences in sentence order
\* (sentenceIndex strictly increasing); sentenceText is the first 100
\* characters of the sentence followed by "..." exactly when the sentence
\* is longer than 100 characters; an item has at most 4 queries.
ItemsCappedInOrder ==
    pc = "suggested" =>
        LET items == suggestions.items
        IN  /\ Len(items) <= 20
            /\ Len(items) = Min(20, Len(FlaggedSentences))
            /\ \A k \in 1..Len(items) :
                  LET full == FlaggedSentences[k].text
                  IN  /\ items[k].sentenceIndex = FlaggedSentences[k].index
                      /\ k > 1 => items[k - 1].sentenceIndex < items[k].sentenceIndex
                      /\ items[k].sentenceText
                           = IF Len(full) > 100
                             THEN SubSeq(full, 1, 100) \o <<".", ".", ".">>
                             ELSE full
                      /\ Len(items[k].queries) <= 4

\* 26 flagged sentences give 20 items; a sentence of 100 characters is
\* shown whole, one of 101 characters is cut; an unflagged sentence lies
\* between two items
ItemsCappedInOrderWitness ==
    /\ pc = "suggested"
    /\ Len(FlaggedSentences) > 20
    /\ Len(suggestions.items) = 20
    /\ \E k \in 1..20 : Len(suggestions.items[k].sentenceText) = 100
    /\ \E k \in 1..20 :
          /\ Len(FlaggedSentences[k].text) = 101
          /\ Len(suggestions.items[k].sentenceText) = 103
    /\ \E k \in 2..20 :
          suggestions.items[k].sentenceIndex
             > suggestions.items[k - 1].sentenceIndex + 1

\* a number, as opposed to NaN
IsNumber(x) == x.d > 0

IsZero(x) == x = Num(0)

\* C15: calculateMetrics is total and never yields NaN: every field is a
\* number; for the empty string every count, length, density and rate is
\* 0; with no retained sentence mean, p50, p90 and longRate50 are 0; with a
\* body of length 0 the punctuation densities and the template density
\* are 0.
MetricsTotal ==
    pc = "measured" =>
        LET sl == metrics.sentenceLength
            pd == metrics.punctuationDensity
            cc == metrics.connectorCounts
            tc == metrics.templateCounts
            rates == {sl.mean, sl.p50, sl.p90, sl.longRate50, pd.comma,
                      pd.semicolon, pd.parenthesis, tc.perThousandChars}
            counts == {cc.causal, cc.adversative, cc.additive, cc.emphatic,
                       cc.total, tc.count, metrics.textLengthChars,
                       metrics.sentenceCount}
        IN  /\ \A x \in rates : IsNumber(x)
            /\ counts \subseteq Nat
            /\ text = <<>> => rates = {Num(0)} /\ counts = {0}
            /\ splitSentencesCN(text) = <<>>
                  => /\ IsZero(sl.mean) /\ IsZero(sl.p50)
                     /\ IsZero(sl.p90) /\ IsZero(sl.longRate50)
            /\ Len(getBodyText(text)) = 0
                  => /\ IsZero(pd.comma) /\ IsZero(pd.semicolon)
                     /\ IsZero(pd.parenthesis) /\ IsZero(tc.perThousandChars)

\* a text that is not empty, all of it a heading: no sentence and no body
MetricsTotalWitness ==
    /\ pc = "measured"
    /\ text # <<>>
    /\ Head(text) = "#"
    /\ splitSentencesCN(text) = <<>>
    /\ Len(getBodyText(text)) = 0
    /\ IsZero(metrics.sentenceLength.mean)
    /\ IsZero(metrics.templateCounts.perThousandChars)

\* C20: in every DetailedMetrics of calculateMetrics, textLengthChars = 0
\* implies sentenceCount = 0 and mean = p50 = p90 = 0: no sentence is
\* counted from text that getBodyText removes as a heading line.
SentencesWithinBody ==
    (pc = "measured" /\ metrics.textLengthChars = 0)
        => /\ metrics.sentenceCount = 0
           /\ IsZero(metrics.sentenceLength.mean)
           /\ IsZero(metrics.sentenceLength.p50)
           /\ IsZero(metrics.sentenceLength.p90)

\* C16: the analysis functions share no mutable state: after any calls and
\* any mutation by a caller of a value they returned, a later call with
\* the same arguments returns the same result; the weights object of a
\* MirrorScore returned by generateMirrorScore called without weights is
\* not the object later calls of calculateMirrorScore use as default.
NoSharedWeights ==
    /\ pc = "scored"
          => score = calculateMirrorScore(draft, sample, DEFAULT_WEIGHTS)
    /\ (pc # "start" /\ weights = DefaultRef) => mirror.weights # DefaultRef

Last(s) == s[Len(s)]

IsSuffix(t, s) == Len(t) <= Len(s) /\ SubSeq(s, Len(s) - Len(t) + 1, Len(s)) = t

\* C17: every sentence splitSentencesCN returns ends with one of 。？！,
\* for every text, a text whose last fragment is not followed by a
\* terminal character included.
EverySentenceEndsWithTerminal ==
    pc = "split" =>
        \A k \in 1..Len(sentences) : Last(sentences[k].text) \in Terminals

\* C17 as the code has it: every sentence ends with one of 。？！ except,
\* possibly, the last one, when it is what follows the last terminal
\* character of the normalized text (or the whole text, when there is none).
SentenceEndsWithTerminalUnlessTrailing ==
    pc = "split" =>
        \A k \in 1..Len(sentences) :
            \/ Last(sentences[k].text) \in Terminals
            \/ /\ k = Len(sentences)
               /\ Last(normalized) \notin Terminals
               /\ IsSuffix(sentences[k].text, normalized)
               /\ \A j \in 1..Len(sentences[k].text) :
                     sentences[k].text[j] \notin Terminals

\* a sentence that ends with its terminal, followed by the rest of the
\* text, returned as a sentence without one
SentenceEndsWithTerminalUnlessTrailingWitness ==
    /\ pc = "split"
    /\ Len(sentences) = 2
    /\ Last(sentences[1].text) \in Terminals
    /\ Last(sentences[2].text) \notin Terminals

\* the marks that are not sentence boundaries
NonBoundaryMarks == {"uFF1B", ";", ".", "?", "!"}

\* the text with a letter in the place of every mark that is no boundary
WithoutMarks(t) == [k \in 1..Len(t) |-> IF t[k] \in NonBoundaryMarks THEN "a" ELSE t[k]]

\* the marks that are no boundary do not change the segmentation
MarksAreNoBoundary ==
    /\ Len(splitSentencesCN(WithoutMarks(text))) = Len(sentences)
    /\ \A k \in 1..Len(sentences) :
          splitSentencesCN(WithoutMarks(text))[k].text = WithoutMarks(sentences[k].text)

\* no terminal character but at the end of a sentence
TerminalOnlyLast ==
    \A k \in 1..Len(sentences) :
        \A j \in 1..(Len(sentences[k].text) - 1) :
            sentences[k].text[j] \notin Terminals

\* the only terminal character of t is its last character
OnlyTerminalIsLast(t) ==
    /\ t # <<>>
    /\ \A j \in 1..Len(t) : (t[j] \in Terminals) <=> (j = Len(t))

HeadingFree(t) ==
    LET lines == Split(Lit("\n"), normalizeText(t))
    IN  \A k \in 1..Len(lines) : ~isMarkdownHeading(lines[k])

SingleSentenceKept ==
    text = SingleSentence
        => Len(sentences) = 1 /\ sentences[1].text = SingleSentence

\* C18: splitSentencesCN splits only immediately after 。？！: the
\* full-width semicolon and the half-width ; . ? ! create no boundary, no
\* sentence holds a terminal character but in its last position, and a
\* heading-free text of at least 2 characters whose only terminal
\* character is its last character yields exactly one sentence;
\* "近年来，深度学习技术得到了广泛关注。" yields one sentence ending in "。".
SplitsOnlyAfterTerminals ==
    pc = "split" =>
        /\ MarksAreNoBoundary
        /\ TerminalOnlyLast
        /\ (HeadingFree(text) /\ Len(text) >= 2 /\ OnlyTerminalIsLast(text))
              => Len(sentences) = 1
        /\ SingleSentenceKept

\* C18 as the code has it: the text that yields exactly one sentence is
\* one whose normalized form has at least 2 characters, does not begin
\* with a heading mark (one or more # and a white space), and has its only
\* terminal character at its end; the sentence is the normalized text.
SplitsOnlyAfterTerminalsNormalized ==
    pc = "split" =>
        /\ MarksAreNoBoundary
        /\ TerminalOnlyLast
        /\ (/\ ~Test(HeadingRe, normalized)
            /\ Len(normalized) >= 2
            /\ OnlyTerminalIsLast(normalized))
              => Len(sentences) = 1 /\ sentences[1].text = normalized
        /\ SingleSentenceKept

\* one sentence that holds a full-width semicolon and a half-width mark
\* before its terminal character
SplitsOnlyAfterTerminalsNormalizedWitness ==
    /\ pc = "split"
    /\ Len(sentences) = 1
    /\ sentences[1].text = text
    /\ "uFF1B" \in Range(text)
    /\ Range(text) \cap {";", ".", "?", "!"} # {}
    /\ Last(text) \in Terminals

\* C19: splitSentencesCN drops only headings, empty fragments and fragments
\* shorter than 2 characters: a body sentence of at least 2 characters
\* that ends in 。？！ and starts on the line after a Markdown heading line
\* is returned as a sentence.
SentenceAfterHeadingReturned ==
    pc = "split" =>
        LET lines == Split(Lit("\n"), normalized)
        IN  \A k \in 1..(Len(lines) - 1) :
               LET first == Trim(Head(Split(LookBehind(Terminals), lines[k + 1])))
               IN  (/\ isMarkdownHeading(lines[k])
                    /\ ~isMarkdownHeading(lines[k + 1])
                    /\ Len(first) >= 2
                    /\ Last(first) \in Terminals)
                      => \E j \in 1..Len(sentences) : sentences[j].text = first

\* a run of three or more line feeds
HasLongBreak(s) ==
    \E i \in 1..(Len(s) - 2) : s[i] = "\n" /\ s[i + 1] = "\n" /\ s[i + 2] = "\n"

\* C21: the output of getBodyText is in normalized form: normalizing it or
\* taking its body again changes nothing, and the text whose length becomes
\* textLengthChars holds no run of 3 or more line feeds.
BodyTextNormalized ==
    pc = "measured" =>
        LET body == getBodyText(text)
        IN  /\ metrics.textLengthChars = Len(body)
            /\ normalizeText(body) = body
            /\ getBodyText(body) = body
            /\ ~HasLongBreak(body)

\* the sentence lengths of the measured text, in text order and ascending
MeasuredLengths ==
    LET sents == splitSentencesCN(text)
    IN  [k \in 1..Len(sents) |-> Len(sents[k].text)]

AscendingLengths == Sorted(MeasuredLengths)

\* C22: for a non-empty list of sentence lengths, p50 and p90 are the
\* interpolation at index p/100 * (n-1) between the floor and ceil order
\* statistics: the unrounded values satisfy min <= p50 <= p90 <= max, p50
\* is the median, one sentence gives p50 = p90 = its length, the reported
\* mean lies between min and max, and longRate50 is the percentage in
\* [0,100] of the sentences longer than 50 characters.
PercentilesInterpolate ==
    (pc = "measured" /\ Len(MeasuredLengths) > 0) =>
        LET L    == AscendingLengths
            n    == Len(L)
            sl   == metrics.sentenceLength
            p50  == percentile(L, 50)
            p90  == percentile(L, 90)
            lo   == (9 * (n - 1)) \div 10
            hi   == IF (9 * (n - 1)) % 10 = 0 THEN lo ELSE lo + 1
            long == Cardinality({k \in 1..n : L[k] > 50})
        IN  /\ \A k \in 1..(n - 1) : L[k] <= L[k + 1]
            /\ sl.p50 = Round1(p50) /\ sl.p90 = Round1(p90)
            /\ RatLe(Num(L[1]), p50) /\ RatLe(p50, p90) /\ RatLe(p90, Num(L[n]))
            /\ p50 = IF n % 2 = 1 THEN Num(L[(n + 1) \div 2])
                     ELSE Frac(L[n \div 2] + L[(n \div 2) + 1], 2)
            /\ RatSub(p90, Num(L[lo + 1]))
                 = Frac((L[hi + 1] - L[lo + 1]) * (9 * (n - 1) - 10 * lo), 10)
            /\ n = 1 => sl.p50 = Num(L[1]) /\ sl.p90 = Num(L[1])
            /\ RatLe(Num(L[1]), sl.mean) /\ RatLe(sl.mean, Num(L[n]))
            /\ RatLe(Num(0), sl.longRate50) /\ RatLe(sl.longRate50, Num(100))
            /\ sl.longRate50 = Round1(Frac(100 * long, n))

\* four sentences of different lengths, given out of order, whose p50 and
\* p90 fall between two lengths; one of them is longer than 50 characters
\* and one has exactly 50
PercentilesInterpolateWitness ==
    /\ pc = "measured"
    /\ MeasuredLengths = <<3, 51, 2, 50>>
    /\ metrics.sentenceLength.mean = Frac(265, 10)
    /\ metrics.sentenceLength.p50 = Frac(265, 10)
    /\ metrics.sentenceLength.p90 = Frac(507, 10)
    /\ metrics.sentenceLength.longRate50 = Num(25)

\* the offsets at which the word occurs
Occurrences(t, word) ==
    {i \in 0..(Len(t) - Len(word)) : Slice(t, i, i + Len(word)) = word}

\* the word can overlap itself: a proper prefix of it is also its suffix
OverlapsItself(word) ==
    \E k \in 1..(Len(word) - 1) :
        SubSeq(word, 1, k) = SubSeq(word, Len(word) - k + 1, Len(word))

RECURSIVE OccurrencesOfAll(_, _)
OccurrencesOfAll(t, words) ==
    IF words = <<>> THEN 0
    ELSE Cardinality(Occurrences(t, Head(words)))
           + OccurrencesOfAll(t, Tail(words))

ConnectorCategories == {"causal", "adversative", "additive", "emphatic"}

\* C23: each connector category count is the sum, over the words of the
\* category, of the occurrences of the word in the body text, each word
\* counted on its own (no listed word overlaps itself, so the occurrences
\* counted from the left without overlap are all of them): 但是 counts for
\* 但是 and for 但; total = causal + adversative + additive + emphatic.
ConnectorCountsPerWord ==
    pc = "measured" =>
        LET body == getBodyText(text)
            cc   == metrics.connectorCounts
        IN  /\ \A c \in ConnectorCategories :
                  /\ \A k \in 1..Len(CONNECTOR_WORDS[c]) :
                        ~OverlapsItself(CONNECTOR_WORDS[c][k])
                  /\ cc[c] = OccurrencesOfAll(body, CONNECTOR_WORDS[c])
            /\ cc.adversative
                 >= 2 * Cardinality(Occurrences(body, <<"u4F46", "u662F">>))
            /\ cc.total = cc.causal + cc.adversative + cc.additive + cc.emphatic

\* 但是 twice in the body: four adversative counts
ConnectorCountsPerWordWitness ==
    /\ pc = "measured"
    /\ Cardinality(Occurrences(getBodyText(text), <<"u4F46", "u662F">>)) = 2
    /\ metrics.connectorCounts.adversative = 4
    /\ metrics.connectorCounts.total = 4

\* the two count records have the same proportions
EqualProportions(a, b) ==
    \A c \in ConnectorCategories :
        a[c] * TotalOrOne(b) = b[c] * TotalOrOne(a)

\* the double as a count of 2^-20, rounded down; likewise the exact value
DoubleScaled(x) == x.hi \div 2^9
ExactScaled(x)  == (x.n * 2^20) \div x.d

\* what C24 states but for the value when one profile is empty
ConnectorDistanceProperties ==
    /\ score.double = connectorDistanceDouble(sample, draft)
    /\ score.exact = connectorDistance(sample, draft)
    /\ DoubleLe(DoubleZero, score.double) /\ DoubleLe(score.double, DoubleOne)
    /\ RatLe(Num(0), score.exact) /\ RatLe(score.exact, Num(1))
    /\ DoubleScaled(score.double) - ExactScaled(score.exact) \in {-1, 0, 1}
    /\ EqualProportions(draft, sample)
          => score.double = DoubleZero /\ score.exact = Num(0)
    /\ (draft.total = 0) # (sample.total = 0) => score.exact = Frac(1, 2)

\* C24: the connector sub-distance equals min(1, L1/2) of the category
\* proportions (count / total, total 0 replaced by 1); it is symmetric,
\* lies in [0,1], is 0 for equal proportions whatever the totals, and is
\* exactly 0.5 when exactly one profile has total 0.
ConnectorDistanceExact ==
    pc = "compared" =>
        /\ ConnectorDistanceProperties
        /\ (draft.total = 0) # (sample.total = 0) => score.double = DoubleHalf

\* C24 as amended: the same, the value for exactly one empty profile being
\* 0.5 to within 2^-53 in the program's doubles.
ConnectorDistanceRounded ==
    pc = "compared" =>
        /\ ConnectorDistanceProperties
        /\ (draft.total = 0) # (sample.total = 0)
              => DoubleLe(DoubleAbsDiffOf(score.double, DoubleHalf),
                          [hi |-> 0, lo |-> 32])

\* counts 1, 2, 2, 1 against an empty profile: 0.49999999999999994, the
\* double just below 0.5
ConnectorDistanceRoundedWitness ==
    /\ pc = "compared"
    /\ draft.total = 6 /\ draft.causal = 1 /\ draft.emphatic = 1
    /\ sample.total = 0
    /\ score.exact = Frac(1, 2)
    /\ score.double = [hi |-> Limb \div 2 - 1, lo |-> Limb - 16]

-----------------------------------------------------------------------------
\* the three shapes of a technical term named by extractAcronyms: capitals
\* then digits, a capitalized run of letters with a capital inside it then
\* digits, and a capitalized word with a hyphenated suffix
AllCapsShape(a) ==
    \E k \in 2..Len(a) :
        /\ \A i \in 1..k : a[i] \in Upper
        /\ \A i \in (k + 1)..Len(a) : a[i] \in Digits

CamelCaseShape(a) ==
    \E j \in 2..Len(a), k \in 2..Len(a) :
        /\ j <= k
        /\ a[1] \in Upper /\ a[j] \in Upper
        /\ \A i \in 1..k : a[i] \in Letters
        /\ \A i \in (k + 1)..Len(a) : a[i] \in Digits

HyphenSuffixShape(a) ==
    \E h \in 3..(Len(a) - 1) :
        /\ a[1] \in Upper /\ a[h] = "-"
        /\ \A i \in 2..(h - 1) : a[i] \in Lower
        /\ a[h + 1] \in Upper \cup Digits
        /\ \A i \in (h + 2)..Len(a) : a[i] \in Letters \cup Digits

\* The, This, That, These, Those, With, From, Into, Upon
Stoplist ==
    {<<"T", "h", "e">>, <<"T", "h", "i", "s">>, <<"T", "h", "a", "t">>,
     <<"T", "h", "e", "s", "e">>, <<"T", "h", "o", "s", "e">>,
     <<"W", "i", "t", "h">>, <<"F", "r", "o", "m">>, <<"I", "n", "t", "o">>,
     <<"U", "p", "o", "n">>}

\* C25: every token extractAcronyms returns for the draft has one of the
\* three shapes (all capitals with optional digits, CamelCase with an internal
\* capital, capitalized word with a hyphenated suffix), so a plain capitalized
\* word is not returned, and no stoplist word is returned.
AcronymShapesOnly ==
    pc = "checked" =>
        \A k \in 1..Len(AcronymsOf[draftText]) :
            LET a == AcronymsOf[draftText][k]
            IN  /\ AllCapsShape(a) \/ CamelCaseShape(a) \/ HyphenSuffixShape(a)
                /\ a \notin Stoplist

\* C26: when the draft and the rewritten text are the number 10 followed by
\* two different units of the list, extractNumbers names the draft's number
\* with its complete unit, the two number sets differ and
\* numberRetentionRate is below 100.
UnitDistinguished ==
    (/\ pc = "checked"
     /\ draftText \in UnitTexts /\ standardText \in UnitTexts
     /\ draftText # standardText)
        => /\ ToLowerCase(draftText) \in Range(NumbersOf[draftText])
           /\ Range(NumbersOf[draftText]) # Range(NumbersOf[standardText])
           /\ ~RatLe(Num(100), guardrails.numberRetentionRate)

-----------------------------------------------------------------------------
\* a term with a Latin letter is an English term, any other a Chinese one
IsEnglishTerm(t) == \E k \in 1..Len(t) : t[k] \in Letters

EndsWith(q, s) ==
    Len(q) >= Len(s) /\ SubSeq(q, Len(q) - Len(s) + 1, Len(q)) = s

\* C27: every item has 1 to 4 queries; at most 2 end with the reason's
\* Chinese suffix and at most 2 with its English suffix; when key terms are
\* extracted a query with the Chinese suffix is built from a Chinese term
\* and one with the English suffix from an English term; when none is
\* extracted the only query is the first 20 characters of the sentence
\* without the characters "，。？！", a space and the reason's first Chinese
\* suffix.
QueriesByLanguage ==
    pc = "suggested" =>
        \A k \in 1..Len(suggestions.items) :
            LET full     == FlaggedSentences[k].text
                queries  == suggestions.items[k].queries
                cnSuffix == <<" ">> \o suffixes[suggestions.items[k].reason].cn[1]
                enSuffix == <<" ">> \o suffixes[suggestions.items[k].reason].en[1]
                cn == {j \in 1..Len(queries) : EndsWith(queries[j], cnSuffix)}
                en == {j \in 1..Len(queries) : EndsWith(queries[j], enSuffix)}
                TermOf(j, s) == SubSeq(queries[j], 1, Len(queries[j]) - Len(s))
            IN  /\ Len(queries) \in 1..4
                /\ cn \cup en = 1..Len(queries)
                /\ Cardinality(cn) <= 2 /\ Cardinality(en) <= 2
                /\ IF extractKeyTerms(full) = <<>>
                   THEN queries =
                          <<SelectSeq(SubSeq(full, 1, Min(Len(full), 20)),
                                LAMBDA c : c \notin {"uFF0C", "u3002", "uFF1F", "uFF01"})
                              \o cnSuffix>>
                   ELSE /\ \A j \in cn : ~IsEnglishTerm(TermOf(j, cnSuffix))
                        /\ \A j \in en : IsEnglishTerm(TermOf(j, enSuffix))

-----------------------------------------------------------------------------
(* part_000: the cloud function client, processPaperWithCloudFunction.     *)
(* The response body is a sequence of tokens: the prefix of a data line,   *)
(* the prefix of a heartbeat, a line feed, or a whole JSON text.           *)

DataPrefix      == "data: "
HeartbeatPrefix == ": "
LineFeed        == "\n"

\* the rewritten field of a result
Rewritten(k) ==
    [conservative |-> <<"conservative", k>>, standard |-> <<"standard", k>>,
     enhanced |-> <<"enhanced", k>>]

\* the JSON texts of the model, with the value JSON.parse returns for each:
\* two progress events with a message and one without, two complete events
\* whose data has a rewritten field and one whose data has none, and an
\* error event with a message; a message that is absent is None, an object
\* that is absent is Null
Null == [null |-> TRUE]

JsonValues ==
    [progress1 |-> [type |-> "progress", message |-> "m1", data |-> Null],
     progress2 |-> [type |-> "progress", message |-> "m2", data |-> Null],
     progress0 |-> [type |-> "progress", message |-> None, data |-> Null],
     complete1 |-> [type |-> "complete", message |-> None,
                    data |-> [rewritten |-> Rewritten(1)]],
     complete2 |-> [type |-> "complete", message |-> None,
                    data |-> [rewritten |-> Rewritten(2)]],
     complete0 |-> [type |-> "complete", message |-> None,
                    data |-> [rewritten |-> Null]],
     error1    |-> [type |-> "error", message |-> "failed", data |-> Null]]

\* a text that is not JSON
NotJson == "{"

SyntaxError == [name |-> "SyntaxError"]

\* the white space JSON allows around a value
JsonWhiteSpace == {" ", "\t", "\n", "\r"}

RECURSIVE SkipJsonSpace(_)
SkipJsonSpace(s) ==
    IF s # <<>> /\ Head(s) \in JsonWhiteSpace THEN SkipJsonSpace(Tail(s)) ELSE s

RECURSIVE DropJsonSpace(_)
DropJsonSpace(s) ==
    IF s # <<>> /\ s[Len(s)] \in JsonWhiteSpace
    THEN DropJsonSpace(SubSeq(s, 1, Len(s) - 1)) ELSE s

\* JSON.parse(jsonStr): one JSON text, white space around it allowed
JSONParse(jsonStr) ==
    LET body == DropJsonSpace(SkipJsonSpace(jsonStr))
    IN  IF Len(body) = 1 /\ body[1] \in DOMAIN JsonValues
        THEN JsonValues[body[1]]
        ELSE SyntaxError

\* a string that counts as true in a condition
Truthy(v) == v \notin {None, ""}

\* buffer.split('\n\n')
RECURSIVE SplitOnBlankLine(_)
SplitOnBlankLine(s) ==
    LET at == {k \in 1..(Len(s) - 1) : s[k] = LineFeed /\ s[k + 1] = LineFeed}
    IN  IF at = {} THEN <<s>>
        ELSE LET k == CHOOSE j \in at : \A h \in at : j <= h
             IN  <<SubSeq(s, 1, k - 1)>>
                   \o SplitOnBlankLine(SubSeq(s, k + 2, Len(s)))

ApiError(code) == [name |-> "ApiError", code |-> code]
NetworkError(code) == [name |-> "NetworkError", code |-> code]
AppError(code) == [name |-> "AppError", code |-> code]

\* the body of the loop over the lines with the first 'complete' event kept
HandleLineKeepingFirst(st, line) ==
    IF line # <<>> /\ Head(line) = DataPrefix
    THEN LET event   == JSONParse(Tail(line))
             counted == [st EXCEPT !.eventCount = @ + 1]
         IN  IF event = SyntaxError THEN counted
             ELSE LET seen == [counted EXCEPT !.parsed = Append(@, event)]
                  IN  IF event.type = "progress" /\ Truthy(event.message)
                      THEN [seen EXCEPT !.progressCalls =
                                           Append(@, [stage |-> event.message])]
                      ELSE IF event.type = "complete" /\ event.data # Null
                      THEN (IF seen.finalResult = Null
                            THEN [seen EXCEPT !.finalResult = event.data]
                            ELSE seen)
                      ELSE IF event.type = "error" /\ Truthy(event.message)
                      THEN [seen EXCEPT !.thrown = ApiError("SERVER_ERROR")]
                      ELSE seen
    ELSE st

\* the body of the loop over the lines: st holds finalResult, eventCount,
\* the events parsed, the calls of onProgress and the error thrown
HandleLine(st, line) ==
    IF line # <<>> /\ Head(line) = DataPrefix
    THEN LET event   == JSONParse(Tail(line))
             counted == [st EXCEPT !.eventCount = @ + 1]
         IN  IF event = SyntaxError THEN counted
             ELSE LET seen == [counted EXCEPT !.parsed = Append(@, event)]
                  IN  IF event.type = "progress" /\ Truthy(event.message)
                      THEN [seen EXCEPT !.progressCalls =
                                           Append(@, [stage |-> event.message])]
                      ELSE IF event.type = "complete" /\ event.data # Null
                      THEN [seen EXCEPT !.finalResult = event.data]
                      ELSE IF event.type = "error" /\ Truthy(event.message)
                      THEN [seen EXCEPT !.thrown = ApiError("SERVER_ERROR")]
                      ELSE seen
    ELSE st

\* for (const line of lines), left when an error is thrown
RECURSIVE HandleLines(_, _)
HandleLines(st, lines) ==
    IF lines = <<>> \/ st.thrown # Null THEN st
    ELSE CHOOSE r \in {HandleLines(next, Tail(lines)) :
                          next \in {HandleLine(st, Head(lines))}} : TRUE

-----------------------------------------------------------------------------
(* The response bodies: up to MaxEvents frames written one after the       *)
(* other. A frame is a data line with a JSON text or with a text that is   *)
(* not JSON, followed by a blank line; a heartbeat followed by a blank     *)
(* line; or a data line that no blank line follows.                        *)

MaxEvents == 3

Frame(json) == <<DataPrefix, json, LineFeed, LineFeed>>

Frames ==
    {Frame(json) : json \in DOMAIN JsonValues \cup {NotJson}}
      \cup {<<HeartbeatPrefix, LineFeed, LineFeed>>,
            <<DataPrefix, "complete1">>}

RECURSIVE Bodies(_)
Bodies(n) ==
    IF n = 0 THEN {<<>>}
    ELSE Bodies(n - 1) \cup {b \o f : b \in Bodies(n - 1), f \in Frames}

analysisVars ==
    <<textVars, mirrorVars, fidelityVars, citationVars, metricsVars, heap>>

Pending == [state |-> "pending"]
Resolved(value) == [state |-> "resolved", value |-> value]
Rejected(reason) == [state |-> "rejected", reason |-> reason]

InitClient ==
    /\ pc = "start"
    /\ stream \in Bodies(MaxEvents)
    /\ received = <<>> /\ buffer = <<>>
    /\ finalResult = Null
    /\ eventCount = 0
    /\ parsed = <<>> /\ progressCalls = <<>>
    /\ reader = "none"
    /\ done = FALSE
    /\ outcome = Pending
    /\ NoAnalysis /\ NoWorkflow /\ NoHook

\* the call: without a URL in the configuration it throws at once,
\* otherwise it sends the request
ProcessCall ==
    /\ pc = "start"
    /\ \E url \in {"", "url"} :
          IF url = ""
          THEN /\ outcome' = Rejected(NetworkError("URL_NOT_CONFIGURED"))
               /\ pc' = "settled"
          ELSE /\ pc' = "fetching"
               /\ UNCHANGED outcome
    /\ UNCHANGED <<stream, received, buffer, finalResult, eventCount, parsed,
                   progressCalls, reader, done>>
    /\ UNCHANGED <<analysisVars, workflowVars, hookVars>>

\* the statuses of createErrorFromResponse and the code each gives
StatusCodes ==
    [s401 |-> "UNAUTHORIZED", s403 |-> "FORBIDDEN", s404 |-> "NOT_FOUND",
     s429 |-> "RATE_LIMITED", s500 |-> "SERVER_ERROR",
     s502 |-> "SERVICE_UNAVAILABLE", s503 |-> "SERVICE_UNAVAILABLE",
     s504 |-> "TIMEOUT", other |-> "SERVER_ERROR"]

\* normalizeError of an error that is not an AppError: a message about the
\* network, an abort or a timeout, any other error
normalizeError(e) ==
    IF e = "network" THEN NetworkError("CONNECTION_FAILED")
    ELSE IF e = "abort" THEN ApiError("TIMEOUT")
    ELSE AppError("PROCESSING_ERROR")

\* the errors fetch rejects with, and the error of a body that breaks off
FetchErrors == {"network", "abort", "other"}
ReadErrors  == {"network"}

\* fetch settles: it fails, or the response is not ok, or it has no body,
\* or the reader of the body is taken
FetchSettles ==
    /\ pc = "fetching"
    /\ \/ /\ \E e \in FetchErrors : outcome' = Rejected(normalizeError(e))
          /\ pc' = "settled"
          /\ UNCHANGED reader
       \/ /\ \E s \in DOMAIN StatusCodes :
                outcome' = Rejected(ApiError(StatusCodes[s]))
          /\ pc' = "settled"
          /\ UNCHANGED reader
       \/ /\ outcome' = Rejected(ApiError("EMPTY_RESPONSE"))
          /\ pc' = "settled"
          /\ UNCHANGED reader
       \/ /\ reader' = "locked"
          /\ pc' = "reading"
          /\ UNCHANGED outcome
    /\ UNCHANGED <<stream, received, buffer, finalResult, eventCount, parsed,
                   progressCalls, done>>
    /\ UNCHANGED <<analysisVars, workflowVars, hookVars>>

\* reader.read() gives the next k tokens of the body in time: they are
\* added to the buffer, the lines before the last blank line are handled
\* and the rest stays in the buffer; an error event ends the call
ReadChunk ==
    /\ pc = "reading" /\ stream # <<>>
    /\ \E k \in 1..Len(stream) :
       \E lines \in {SplitOnBlankLine(buffer \o SubSeq(stream, 1, k))} :
       \E st \in {HandleLines([finalResult   |-> finalResult,
                               eventCount    |-> eventCount,
                               parsed        |-> parsed,
                               progressCalls |-> progressCalls,
                               thrown        |-> Null],
                              SubSeq(lines, 1, Len(lines) - 1))} :
              /\ stream' = SubSeq(stream, k + 1, Len(stream))
              /\ received' = received \o SubSeq(stream, 1, k)
              /\ buffer' = lines[Len(lines)]
              /\ finalResult' = st.finalResult
              /\ eventCount' = st.eventCount
              /\ parsed' = st.parsed
              /\ progressCalls' = st.progressCalls
              /\ IF st.thrown # Null
                 THEN /\ outcome' = Rejected(st.thrown)
                      /\ reader' = "released"
                      /\ pc' = "settled"
                 ELSE UNCHANGED <<outcome, reader, pc>>
    /\ UNCHANGED done
    /\ UNCHANGED <<analysisVars, workflowVars, hookVars>>

\* reader.read() gives the next tokens more than 60 seconds after the last
\* event was parsed: they are not decoded
ReadLate ==
    /\ pc = "reading" /\ stream # <<>>
    /\ \E k \in 1..Len(stream) : stream' = SubSeq(stream, k + 1, Len(stream))
    /\ outcome' = Rejected(ApiError("TIMEOUT"))
    /\ reader' = "released"
    /\ pc' = "settled"
    /\ UNCHANGED <<received, buffer, finalResult, eventCount, parsed,
                   progressCalls, done>>
    /\ UNCHANGED <<analysisVars, workflowVars, hookVars>>

\* reader.read() rejects
ReadFails ==
    /\ pc = "reading"
    /\ \E e \in ReadErrors : outcome' = Rejected(normalizeError(e))
    /\ reader' = "released"
    /\ pc' = "settled"
    /\ UNCHANGED <<stream, received, buffer, finalResult, eventCount, parsed,
                   progressCalls, done>>
    /\ UNCHANGED <<analysisVars, workflowVars, hookVars>>

\* the result returned for the data of a 'complete' event
MigrationResultOf(data) ==
    [conservative   |-> data.rewritten.conservative,
     standard       |-> data.rewritten.standard,
     enhanced       |-> data.rewritten.enhanced,
     analysisReport |-> [status |-> "complete"]]

\* reader.read() reports the end of the body: the lock is released and the
\* result is validated
ReadDone ==
    /\ pc = "reading" /\ stream = <<>>
    /\ done' = TRUE
    /\ reader' = "released"
    /\ outcome' = IF finalResult = Null
                  THEN Rejected(ApiError("INCOMPLETE_RESPONSE"))
                  ELSE IF finalResult.rewritten = Null
                  THEN Rejected(ApiError("INCOMPLETE_RESPONSE"))
                  ELSE Resolved(MigrationResultOf(finalResult))
    /\ pc' = "settled"
    /\ UNCHANGED <<stream, received, buffer, finalResult, eventCount, parsed,
                   progressCalls>>
    /\ UNCHANGED <<analysisVars, workflowVars, hookVars>>

NextClient ==
    \/ ProcessCall
    \/ FetchSettles
    \/ ReadChunk
    \/ ReadLate
    \/ ReadFails
    \/ ReadDone

SpecClient == InitClient /\ [][NextClient]_vars

-----------------------------------------------------------------------------
\* the events of a text, whatever the chunks it arrived in: the parsable
\* JSON values of the data lines that a blank line ends, in order
EventsOf(t) ==
    LET lines == SplitOnBlankLine(t)
        ended == SubSeq(lines, 1, Len(lines) - 1)
        data  == SelectSeq(ended, LAMBDA line :
                     /\ line # <<>> /\ Head(line) = DataPrefix
                     /\ JSONParse(Tail(line)) # SyntaxError)
    IN  [k \in 1..Len(data) |-> JSONParse(Tail(data[k]))]

IsErrorEvent(e) == e.type = "error" /\ Truthy(e.message)
IsResultEvent(e) ==
    e.type = "complete" /\ e.data # Null /\ e.data.rewritten # Null

\* the events up to the first error event with a message
UpToError(events) ==
    LET errors == {k \in 1..Len(events) : IsErrorEvent(events[k])}
    IN  IF errors = {} THEN events
        ELSE SubSeq(events, 1, CHOOSE k \in errors : \A j \in errors : k <= j)

\* resolved only after the end of the stream, with the result of the last
\* parsed 'complete' event that has a rewritten field; INCOMPLETE_RESPONSE
\* when the stream ends without one
ResolvesWithLastResult ==
    LET results == {k \in 1..Len(parsed) : IsResultEvent(parsed[k])}
    IN  /\ outcome.state = "resolved" =>
              /\ done /\ stream = <<>> /\ results # {}
              /\ outcome.value =
                   MigrationResultOf(
                     parsed[CHOOSE k \in results : \A j \in results : j <= k].data)
        /\ (done /\ results = {})
              => outcome = Rejected(ApiError("INCOMPLETE_RESPONSE"))

\* the events parsed are those of the text received, in order, up to the
\* first error event with a message: a text that is not JSON is skipped and
\* no event after the error is handled; the error event rejects the call
\* with SERVER_ERROR, whatever came before it
StopsAtFirstError ==
    /\ parsed = UpToError(EventsOf(received))
    /\ \A k \in 1..Len(parsed) :
          IsErrorEvent(parsed[k])
             => /\ k = Len(parsed)
                /\ outcome = Rejected(ApiError("SERVER_ERROR"))

\* once the reader is taken, a settled call has released it
ReaderReleased ==
    /\ (reader # "none" /\ outcome # Pending) => reader = "released"
    /\ reader = "locked" => pc = "reading"

\* C28 as stated: resolved only after a normal end of the stream with the
\* result of the last 'complete' event that has a rewritten field, else
\* INCOMPLETE_RESPONSE; the first error event with a message rejects with
\* SERVER_ERROR and ends the handling; unparsable events are skipped;
\* onProgress is called once per parsed 'progress' event, in order; the
\* reader is released on every path.
StreamContractPerProgressEvent ==
    pc \in {"reading", "settled"} =>
        /\ ResolvesWithLastResult
        /\ StopsAtFirstError
        /\ ReaderReleased
        /\ LET events == SelectSeq(parsed, LAMBDA e : e.type = "progress")
           IN  /\ Len(progressCalls) = Len(events)
               /\ \A k \in 1..Len(events) :
                     progressCalls[k].stage = events[k].message

\* C28, amended: the same, with onProgress called once per parsed 'progress'
\* event that has a non-empty message, in order, and not for a 'progress'
\* event without a message.
StreamContract ==
    pc \in {"reading", "settled"} =>
        /\ ResolvesWithLastResult
        /\ StopsAtFirstError
        /\ ReaderReleased
        /\ LET events == SelectSeq(parsed, LAMBDA e :
                             e.type = "progress" /\ Truthy(e.message))
           IN  progressCalls = [k \in 1..Len(events) |->
                                   [stage |-> events[k].message]]

\* a 'progress' event without a message, one with a message and a result
\* have been parsed, onProgress has been called once, and the call has
\* resolved with the reader released
StreamContractWitness ==
    /\ pc = "settled" /\ outcome.state = "resolved"
    /\ reader = "released"
    /\ Len(progressCalls) = 1
    /\ Len(SelectSeq(parsed, LAMBDA e : e.type = "progress")) = 2

-----------------------------------------------------------------------------
(* workflowService.ts: runInferenceWorkflow. A text is a sequence of       *)
(* pieces: the rewritten text of a chunk in one of the three variants, the *)
(* error placeholder of a section, the word "undefined", or the two line   *)
(* feeds written after each of them.                                       *)

RewrittenText(variant, k) == [piece |-> "text", variant |-> variant, chunk |-> k]
ErrorPlaceholder(title)   == [piece |-> "error", title |-> title]
Undefined                 == [piece |-> "undefined"]
Break                     == [piece |-> "\n\n"]

\* String.prototype.trim of such a text
RECURSIVE TrimBreaks(_)
TrimBreaks(t) ==
    IF t # <<>> /\ Head(t) = Break THEN TrimBreaks(Tail(t))
    ELSE IF t # <<>> /\ t[Len(t)] = Break THEN TrimBreaks(SubSeq(t, 1, Len(t) - 1))
    ELSE t

Variants == {"conservative", "standard", "enhanced"}

\* the three += of a turn of the loop
AppendToAll(outs, segment) ==
    [v \in Variants |-> outs[v] \o <<segment[v], Break>>]

\* catch (chunkError) without the placeholders
CatchWithoutPlaceholder(outs, title) == outs

\* catch (chunkError): the placeholder of the section in all three variants
CatchChunkError(outs, title) ==
    AppendToAll(outs, [v \in Variants |-> ErrorPlaceholder(title)])

\* what the await of rewriteChunkInInferenceMode gives: an object with the
\* three texts, an object without them, null, or a rejection
RewriteResults == {"texts", "empty", "null", "rejected"}

\* the progress updates of the workflow
StageUpdate(stage) ==
    [update |-> stage, current |-> None, total |-> None, payload |-> Null]
ChunkUpdate(k, n, payload) ==
    [update |-> "Rewriting chunk", current |-> k + 1, total |-> n,
     payload |-> payload]
ServiceCall(name, k) == [call |-> name, chunk |-> k]

\* the return statement
WorkflowReturn(outs) ==
    Resolved([conservative   |-> TrimBreaks(outs["conservative"]),
              standard       |-> TrimBreaks(outs["standard"]),
              enhanced       |-> TrimBreaks(outs["enhanced"]),
              analysisReport |-> [status |-> "complete"]])

MaxChunks == 3

Titles == {"Introduction", "Methods"}

\* mergeSmallChunks(chunkDocument(draftPaperContent)): up to MaxChunks chunks
RECURSIVE ChunkLists(_)
ChunkLists(n) ==
    IF n = 0 THEN {<<>>}
    ELSE ChunkLists(n - 1)
           \cup {Append(c, [title |-> t]) : c \in ChunkLists(n - 1), t \in Titles}

FullDocument == <<[title |-> "Full Document"]>>

InitWorkflow ==
    /\ pc = "start"
    /\ chunks \in ChunkLists(MaxChunks)
    /\ chunkIndex = 0
    /\ outputs = [v \in Variants |-> <<>>]
    /\ failedChunks = <<>>
    /\ trace = <<>>
    /\ workflowResult = Pending
    /\ NoAnalysis /\ NoClient /\ NoHook

\* the call, up to the await of extractStyleGuide
WorkflowCall ==
    /\ pc = "start"
    /\ trace' = trace \o <<StageUpdate("Extracting style guide..."),
                           ServiceCall("extractStyleGuide", None)>>
    /\ pc' = "extracting"
    /\ UNCHANGED <<chunks, chunkIndex, outputs, failedChunks, workflowResult>>
    /\ UNCHANGED <<analysisVars, clientVars, hookVars>>

\* extractStyleGuide settles
StyleGuideSettles ==
    /\ pc = "extracting"
    /\ \/ /\ trace' = trace \o <<StageUpdate("Analyzing document context..."),
                                 ServiceCall("generateDocumentContext", None)>>
          /\ pc' = "analyzing"
          /\ UNCHANGED workflowResult
       \/ /\ workflowResult' = Rejected("extractStyleGuide")
          /\ pc' = "returned"
          /\ UNCHANGED trace
    /\ UNCHANGED <<chunks, chunkIndex, outputs, failedChunks>>
    /\ UNCHANGED <<analysisVars, clientVars, hookVars>>

\* the head of the loop: with a chunk left, the update of turn i and the
\* call of rewriteChunkInInferenceMode for chunk i; with none, the return
TurnOrReturn(i, n, tr, outs) ==
    /\ chunkIndex' = i
    /\ IF i < n
       THEN /\ trace' = tr \o <<ChunkUpdate(i, n, Null),
                                ServiceCall("rewriteChunkInInferenceMode", i)>>
            /\ pc' = "rewriting"
            /\ UNCHANGED workflowResult
       ELSE /\ trace' = tr
            /\ pc' = "returned"
            /\ workflowResult' = WorkflowReturn(outs)

\* generateDocumentContext settles: the chunks are made and the loop starts
ContextSettles ==
    /\ pc = "analyzing"
    /\ \/ /\ chunks' = IF Len(chunks) = 0 THEN FullDocument ELSE chunks
          /\ TurnOrReturn(0, Len(chunks'),
                          Append(trace, StageUpdate("Chunking document...")),
                          outputs)
       \/ /\ workflowResult' = Rejected("generateDocumentContext")
          /\ pc' = "returned"
          /\ UNCHANGED <<chunks, chunkIndex, trace>>
    /\ UNCHANGED <<outputs, failedChunks>>
    /\ UNCHANGED <<analysisVars, clientVars, hookVars>>

\* rewriteChunkInInferenceMode settles for chunk i: its texts are appended,
\* the update with the payload is made and the pause of 100 ms starts; or
\* the catch block runs and the loop goes on with chunk i + 1
RewriteSettles ==
    /\ pc = "rewriting"
    /\ \E r \in RewriteResults :
          IF r \in {"texts", "empty"}
          THEN /\ outputs' = AppendToAll(outputs,
                                 [v \in Variants |->
                                     IF r = "texts"
                                     THEN RewrittenText(v, chunkIndex)
                                     ELSE Undefined])
               /\ trace' = Append(trace,
                                  ChunkUpdate(chunkIndex, Len(chunks), outputs'))
               /\ pc' = "pausing"
               /\ UNCHANGED <<chunkIndex, failedChunks, workflowResult>>
          ELSE /\ failedChunks' = Append(failedChunks, chunkIndex + 1)
               /\ outputs' = CatchChunkError(outputs, chunks[chunkIndex + 1].title)
               /\ TurnOrReturn(chunkIndex + 1, Len(chunks), trace, outputs')
    /\ UNCHANGED chunks
    /\ UNCHANGED <<analysisVars, clientVars, hookVars>>

\* the pause ends: the next turn of the loop, or the return
PauseEnds ==
    /\ pc = "pausing"
    /\ TurnOrReturn(chunkIndex + 1, Len(chunks), trace, outputs)
    /\ UNCHANGED <<chunks, outputs, failedChunks>>
    /\ UNCHANGED <<analysisVars, clientVars, hookVars>>

NextWorkflow ==
    \/ WorkflowCall
    \/ StyleGuideSettles
    \/ ContextSettles
    \/ RewriteSettles
    \/ PauseEnds

SpecWorkflow == InitWorkflow /\ [][NextWorkflow]_vars

-----------------------------------------------------------------------------
\* the segments of a text: what stands between the breaks
RECURSIVE SegmentsOf(_)
SegmentsOf(t) ==
    LET at == {k \in 1..Len(t) : t[k] = Break}
    IN  IF at = {} THEN <<t>>
        ELSE LET k == CHOOSE j \in at : \A h \in at : j <= h
             IN  <<SubSeq(t, 1, k - 1)>> \o SegmentsOf(SubSeq(t, k + 1, Len(t)))

IsRewriteCall(e) ==
    "call" \in DOMAIN e /\ e.call = "rewriteChunkInInferenceMode"

\* the chunks whose turn of the loop is over
Processed ==
    IF pc = "rewriting" THEN chunkIndex
    ELSE IF pc = "pausing" THEN chunkIndex + 1
    ELSE IF workflowResult.state = "resolved" THEN Len(chunks)
    ELSE 0

\* the style guide and the document context have been made
ChunkingReached == StageUpdate("Chunking document...") \in Range(trace)

\* the text has one segment for each of the first m chunks, in chunk
\* order: the rewritten text of the chunk in this variant (or "undefined")
\* or, for a failed chunk, the placeholder with the title of the chunk
OneSegmentPerChunk(t, v, m) ==
    IF m = 0 THEN t = <<>>
    ELSE LET segments == SegmentsOf(t)
         IN  /\ Len(segments) = m
             /\ \A k \in 1..m :
                   IF k \in Range(failedChunks)
                   THEN segments[k] = <<ErrorPlaceholder(chunks[k].title)>>
                   ELSE segments[k] \in {<<RewrittenText(v, k - 1)>>, <<Undefined>>}

\* C29: the chunks are rewritten one at a time in index order, the update
\* with current = i + 1 and total = the number of chunks comes just before
\* the call for chunk i; a failed chunk gets its placeholder in all three
\* variants and the loop goes on; the workflow rejects only when the style
\* guide or the document context fails, and otherwise returns three texts
\* with exactly one segment per chunk, in chunk order.
ChunksRewrittenInOrder ==
    LET calls == SelectSeq(trace, IsRewriteCall)
        n     == Len(chunks)
    IN  /\ Len(calls) = Processed + (IF pc = "rewriting" THEN 1 ELSE 0)
        /\ \A k \in 1..Len(calls) : calls[k].chunk = k - 1
        /\ \A p \in 1..Len(trace) :
              IsRewriteCall(trace[p])
                 => /\ p > 1
                    /\ trace[p - 1] = ChunkUpdate(trace[p].chunk, n, Null)
        /\ \A k \in 1..Len(failedChunks) : failedChunks[k] \in 1..Processed
        /\ \A v \in Variants :
              OneSegmentPerChunk(TrimBreaks(outputs[v]), v, Processed)
        /\ workflowResult.state = "rejected"
              => /\ ~ChunkingReached
                 /\ calls = <<>>
        /\ (pc = "returned" /\ ChunkingReached)
              => /\ workflowResult.state = "resolved"
                 /\ n >= 1
                 /\ \A v \in Variants :
                       /\ workflowResult.value[v] = TrimBreaks(outputs[v])
                       /\ OneSegmentPerChunk(workflowResult.value[v], v, n)

\* the workflow has returned for a draft of several chunks of which the
\* first failed and a later one was rewritten
ChunksRewrittenInOrderWitness ==
    /\ pc = "returned" /\ workflowResult.state = "resolved"
    /\ Len(chunks) >= 2
    /\ failedChunks # <<>> /\ failedChunks[1] = 1
    /\ Len(failedChunks) < Len(chunks)

-----------------------------------------------------------------------------
(* useMigrationWorkflow.ts: the state of the hook and the calls of         *)
(* startMigration that have not finished. A call waits for the sample      *)
(* file, then for the draft file, then for the workflow.                   *)

MaxMigrations == 2

Migrations == 1..MaxMigrations

\* null for the error message
NullMessage == "null"

MissingFilesMessage == "Please upload both required files."
MigrationFailedMessage == "Migration failed: "

ResultFields == {"conservative", "standard", "enhanced", "analysisReport"}

\* {}: a result without fields (a field that is absent is Null)
EmptyObject == [f \in ResultFields |-> Null]

\* the payload of an update of migration m
PayloadOf(m) ==
    [f \in ResultFields |->
        IF f = "analysisReport" THEN Null ELSE [text |-> f, migration |-> m]]

\* the result of the workflow of migration m, with or without a standard text
MigrationResult(m, withStandard) ==
    [f \in ResultFields |->
        IF f = "analysisReport" THEN [status |-> "complete"]
        ELSE IF withStandard THEN [text |-> f, migration |-> m]
        ELSE [text |-> "", migration |-> m]]

\* { ...(prevResult || {}), ...update.payload }
Spread(prevResult, payload) ==
    LET prev == IF prevResult = Null THEN EmptyObject ELSE prevResult
    IN  [f \in ResultFields |-> IF payload[f] # Null THEN payload[f] ELSE prev[f]]

EmptyLinks == [links |-> "none"]
LinksOf(m) == [links |-> "object URLs", migration |-> m]

InFlight == {m \in Migrations : migrations[m] \in {"sample", "draft", "running"}}

InitHook ==
    /\ pc = "mounted"
    /\ status = "idle"
    /\ result = Null
    /\ error = NullMessage
    /\ progress = Null
    /\ downloadLinks = EmptyLinks
    /\ migrations = [m \in Migrations |-> "unstarted"]
    /\ NoAnalysis /\ NoClient /\ NoWorkflow

\* startMigration: with a file missing only the error is set; otherwise
\* the state is prepared and the sample file is read
StartMigration ==
    /\ \E samplePaper \in {"null", "file"}, draftPaper \in {"null", "file"} :
          IF samplePaper = "null" \/ draftPaper = "null"
          THEN /\ error' = MissingFilesMessage
               /\ UNCHANGED <<status, result, progress, downloadLinks, migrations>>
          ELSE /\ \E m \in Migrations :
                     /\ migrations[m] = "unstarted"
                     /\ \A k \in Migrations : migrations[k] = "unstarted" => m <= k
                     /\ migrations' = [migrations EXCEPT ![m] = "sample"]
               /\ status' = "loading"
               /\ error' = NullMessage
               /\ result' = EmptyObject
               /\ progress' = Null
               /\ downloadLinks' = EmptyLinks
    /\ UNCHANGED <<pc, analysisVars, clientVars, workflowVars>>

\* catch and finally of startMigration
MigrationFails(m) ==
    /\ error' = MigrationFailedMessage
    /\ status' = "error"
    /\ progress' = Null
    /\ migrations' = [migrations EXCEPT ![m] = "finished"]
    /\ UNCHANGED <<result, downloadLinks>>

\* handleProgress
handleProgress(m, withPayload) ==
    /\ progress' = [stage |-> "stage", migration |-> m]
    /\ result' = IF withPayload THEN Spread(result, PayloadOf(m)) ELSE result

\* the sample file has been read, or could not be
SampleRead ==
    /\ \E m \in Migrations :
          /\ migrations[m] = "sample"
          /\ \/ /\ migrations' = [migrations EXCEPT ![m] = "draft"]
                /\ UNCHANGED <<status, result, error, progress, downloadLinks>>
             \/ MigrationFails(m)
    /\ UNCHANGED <<pc, analysisVars, clientVars, workflowVars>>

\* the draft file has been read and the workflow starts with its first
\* update, or the file could not be read
DraftRead ==
    /\ \E m \in Migrations :
          /\ migrations[m] = "draft"
          /\ \/ /\ migrations' = [migrations EXCEPT ![m] = "running"]
                /\ handleProgress(m, FALSE)
                /\ UNCHANGED <<status, error, downloadLinks>>
             \/ MigrationFails(m)
    /\ UNCHANGED <<pc, analysisVars, clientVars, workflowVars>>

\* the workflow reports progress, with or without a payload
ReportProgress ==
    /\ \E m \in Migrations, withPayload \in BOOLEAN :
          /\ migrations[m] = "running"
          /\ handleProgress(m, withPayload)
    /\ UNCHANGED <<status, error, downloadLinks, migrations>>
    /\ UNCHANGED <<pc, analysisVars, clientVars, workflowVars>>

\* the workflow resolves, or rejects
WorkflowSettles ==
    /\ \E m \in Migrations :
          /\ migrations[m] = "running"
          /\ \/ \E withStandard \in BOOLEAN :
                   /\ result' = MigrationResult(m, withStandard)
                   /\ downloadLinks' = IF withStandard THEN LinksOf(m)
                                       ELSE downloadLinks
                   /\ status' = "success"
                   /\ progress' = Null
                   /\ migrations' = [migrations EXCEPT ![m] = "finished"]
                   /\ UNCHANGED error
             \/ MigrationFails(m)
    /\ UNCHANGED <<pc, analysisVars, clientVars, workflowVars>>

resetWorkflow ==
    /\ result' = Null
    /\ status' = "idle"
    /\ error' = NullMessage
    /\ progress' = Null
    /\ UNCHANGED <<downloadLinks, migrations>>
    /\ UNCHANGED <<pc, analysisVars, clientVars, workflowVars>>

NextHook ==
    \/ StartMigration
    \/ SampleRead
    \/ DraftRead
    \/ ReportProgress
    \/ WorkflowSettles
    \/ resetWorkflow

SpecHook == InitHook /\ [][NextHook]_vars

\* the state resetWorkflow leaves
IdleState ==
    /\ status = "idle" /\ result = Null
    /\ error = NullMessage /\ progress = Null

\* C30: status is 'loading' only while a migration is in flight; from the
\* state resetWorkflow leaves (status 'idle', result, error and progress
\* null) only a call of startMigration leads to another state, whatever an
\* earlier migration does; a call of startMigration with a file missing
\* sets the error message and changes neither the status nor the
\* migrations in flight.
IdleUntilNextStart ==
    /\ [](status = "loading" => InFlight # {})
    /\ [][(IdleState /\ ~StartMigration) => IdleState']_vars
    /\ [][(StartMigration /\ migrations' = migrations)
             => (status' = status /\ error' = MissingFilesMessage)]_vars

=============================================================================
